---- MODULE Spec2Model ----
(***************************************************************************)
(* Styled-text rendering engine of terminedia: the StyledSequence state    *)
(* machine (text/style.py), the MarkMap it consumes and the TextPlane      *)
(* (text/planes.py) it renders to.                                         *)
(*                                                                         *)
(* Encoding conventions                                                    *)
(*   - a position (V2) is a pair <<x, y>> of integers;                     *)
(*   - a MarkMap slot, which in the code holds one Mark or a list of       *)
(*     Marks, is a sequence of Marks (one Mark is a sequence of length 1;  *)
(*     _force_iter and _merge_as_lists erase the difference on reads);     *)
(*   - Python's None for a cursor tuple is the empty sequence <<>>;        *)
(*   - attribute values are strings; DirVec gives a direction its vector.  *)
(***************************************************************************)
EXTENDS Integers, Sequences, FiniteSets, TLC

(* ----------------------------- bounds ---------------------------------- *)
\* longest text rendered
MaxLen == 3
\* number of TextPlane.update() calls explored
MaxTick == 2
\* number of random-access _process_to calls made by a consumer per pass
MaxAccess == 2
\* number of times a consumer iterates the sequence
MaxPass == 2

(* ------------------------ program constants ---------------------------- *)
\* style.py:77, RETAIN_POS = object(): a value no coordinate ever equals
RETAIN_POS == -1000
\* style.py:124, _last_index_processed = None
NoIndex == -1

\* contexts.py:82-88, the ContextVars followed
ContextAttrs ==
  {"color", "background", "direction", "effects", "char", "font"}

\* The attributes a context can come to hold: the ContextVars, and
\* "foreground", which is no ContextVar and which Context.__setattr__
\* (contexts.py:100-105) stores as a plain attribute once a Mark sets it
Attrs == ContextAttrs \cup {"foreground"}

\* contexts.py:82-88, the ContextVar defaults; effects is the set of the
\* members of Effects that are on, char and font are strs (the sequences of
\* their characters), and "UNSET" stands for a missing attribute
ContextDefaults ==
  [color |-> "DEFAULT_FG", background |-> "DEFAULT_BG", direction |-> "RIGHT",
   effects |-> {}, char |-> <<"FULL_BLOCK">>, font |-> <<>>,
   foreground |-> "UNSET"]

\* terminedia.py:82-86, class Directions
DirVec(d) ==
  CASE d = "UP"    -> <<0, -1>>
    [] d = "RIGHT" -> <<1, 0>>
    [] d = "DOWN"  -> <<0, 1>>
    [] d = "LEFT"  -> <<-1, 0>>

V2Add(p, q) == <<p[1] + q[1], p[2] + q[2]>>

Max(S) == CHOOSE x \in S : \A y \in S : y <= x
Min(S) == CHOOSE x \in S : \A y \in S : x <= y
Range(f) == {f[i] : i \in DOMAIN f}

(* ------------------------------ Marks ---------------------------------- *)
\* style.py:581-585, Mark.__init__.  rewind is NoIndex for a plain Mark; a
\* Mark subclass whose moveto is a property (style.py:567-573) that calls
\* back into the sequence is given by the index it asks _process_to for.
Mark(a, p, mt, rm) ==
  [attributes |-> a, pop_attributes |-> p, moveto |-> mt, rmoveto |-> rm,
   rewind |-> NoIndex]

\* style.py:620-624, SpecialMark: a Mark with an index(tick, length) method
SpecialMark(fn, a, p, mt, rm) ==
  [index |-> fn, attributes |-> a, pop_attributes |-> p, moveto |-> mt,
   rmoveto |-> rm, rewind |-> NoIndex]

NoAttr == <<>>
Push(a, v) == Mark((a :> v), {}, <<>>, <<>>)
Pop(a) == Mark(NoAttr, {a}, <<>>, <<>>)
MoveTo(x, y) == Mark(NoAttr, {}, <<x, y>>, <<>>)
RMoveTo(dx, dy) == Mark(NoAttr, {}, <<>>, <<dx, dy>>)
Rewinder(j) == [Mark(NoAttr, {}, <<>>, <<>>) EXCEPT !.rewind = j]

\* planes.py:190, the "teleporter" Mark _reset_marks puts past the right edge
WrapMark == Mark(NoAttr, {}, <<0, RETAIN_POS>>, <<0, 1>>)

(* --------------------- edge-relative coordinates ----------------------- *)
\* One axis of an index handed to a MarkMap is a pair <<kind, v>>:
\*   <<"A", n>>  the integer n (negative: counted from the far edge)
\*   <<"N", 0>>  None
\*   <<"W", k>>  RelativeMarkIndex("WIDTH") + k,  <<"H", k>> likewise
Abs(n) == <<"A", n>>
NoneIdx == <<"N", 0>>
WIDTH_INDEX == <<"W", 0>>
HEIGHT_INDEX == <<"H", 0>>
IsRelativeMarkIndex(c) == c[1] \in {"W", "H"}

\* RelativeMarkIndex.evaluate(size): the offset from the far edge of its axis
Evaluate(c, size) == IF c[1] = "W" THEN size[1] + c[2] ELSE size[2] + c[2]

\* style.py:328-329
index_is_relative(index) ==
  \/ index[1][1] = "N"
  \/ index[2][1] = "N"
  \/ IsRelativeMarkIndex(index[1])
  \/ (index[1][1] = "A" /\ index[1][2] < 0)
  \/ IsRelativeMarkIndex(index[2])
  \/ (index[2][1] = "A" /\ index[2][2] < 0)

\* style.py:331-336; RelativeMarkIndex(name) + None is the edge itself
normalize_component(comp, name) ==
  IF IsRelativeMarkIndex(comp) THEN [rel |-> TRUE, comp |-> comp]
  ELSE IF comp[1] = "N" \/ comp[2] < 0
       THEN [rel |-> TRUE, comp |-> <<name, comp[2]>>]
       ELSE [rel |-> FALSE, comp |-> comp]

\* style.py:338-341
normalize_relative_index(index) ==
  LET c1 == normalize_component(index[1], "W")
      c2 == normalize_component(index[2], "H")
  IN  [rel |-> c1.rel \/ c2.rel, index |-> <<c1.comp, c2.comp>>]

\* style.py:347-360: the concrete value of one axis.  Both axes replace None
\* by WIDTH_INDEX (lines 349 and 355).
ConcreteAxis(comp, size, axis) ==
  LET c == IF comp[1] = "N" THEN WIDTH_INDEX ELSE comp
  IN  IF IsRelativeMarkIndex(c) THEN Evaluate(c, size)
      ELSE IF c[2] < 0 THEN size[axis] + c[2] ELSE c[2]

\* style.py:343-368: the four spellings, the concrete one first
get_relative_variants(pos, size) ==
  LET x == ConcreteAxis(pos[1], size, 1)
      y == ConcreteAxis(pos[2], size, 2)
      px == <<"W", x - size[1]>>
      py == <<"H", y - size[2]>>
  IN  << <<Abs(x), Abs(y)>>, <<px, Abs(y)>>, <<Abs(x), py>>, <<px, py>> >>

\* the key of MarkMap.data for a spelling without relative axes
AbsKey(index) == <<index[1][2], index[2][2]>>

\* The size the plane explored is built with
PlaneSize == <<3, 2>>

(* ------------------------------ MarkMap -------------------------------- *)
\* style.py:430-438, MarkMap.__init__.  data maps positions to slots;
\* relative_data is kept as the list of its items in insertion order
\* (concretize_relative_marks merges in that order).
EmptyMarkMap ==
  [data |-> <<>>, relative_data |-> <<>>, tick |-> 0, seq_data |-> <<>>,
   special |-> {}]

\* style.py:315-325 on slots
merge_as_lists(a, b) == a \o b

RelKeys(rd) == {rd[i].key : i \in DOMAIN rd}

\* dict assignment relative_data[key] = value: a known key keeps its place
RelPut(rd, key, value) ==
  IF key \in RelKeys(rd)
  THEN [i \in DOMAIN rd |->
          IF rd[i].key = key THEN [key |-> key, val |-> value] ELSE rd[i]]
  ELSE Append(rd, [key |-> key, val |-> value])

\* style.py:489-501, MarkMap.__setitem__ for a position or the tag "special"
\* (value is a slot; for "special" the SpecialMark itself)
MarkMapSet(mm, index, value) ==
  LET n == normalize_relative_index(index)
  IN  IF n.rel
      THEN [mm EXCEPT !.relative_data = RelPut(@, n.index, value)]
      ELSE [mm EXCEPT !.data = (AbsKey(n.index) :> value) @@ @]

MarkMapSetSpecial(mm, value) == [mm EXCEPT !.special = @ \cup {value}]

\* the index functions of the SpecialMarks explored: index(tick, length)
\* gives a 1-D index into the text or a 2-D position on the plane
IndexFns == {"tick_mod_len", "column_tick_mod_len"}
IndexOf(fn, tick, length) ==
  IF fn = "tick_mod_len" THEN <<"i", tick % length, 0>>
  ELSE <<"p", tick % length, 0>>

\* concretize_special_marks evaluating every index function at tick 0
concretize_special_marks_untimed(order, tick, length) ==
  [i \in DOMAIN order |->
     [key |-> IndexOf(order[i].index, 0, length), mark |-> order[i]]]

\* style.py:457-463: order is the order in which the set is iterated
concretize_special_marks(order, tick, length) ==
  [i \in DOMAIN order |->
     [key |-> IndexOf(order[i].index, tick, length), mark |-> order[i]]]

\* concretize_relative_marks resolving against the size the plane was built
\* with
RECURSIVE concretize_relative_marks_stale(_, _, _)
concretize_relative_marks_stale(data, rd, size) ==
  IF rd = <<>> THEN data
  ELSE LET concrete_index ==
             AbsKey(get_relative_variants(Head(rd).key, PlaneSize)[1])
           old == IF concrete_index \in DOMAIN data
                  THEN data[concrete_index] ELSE <<>>
           new_mark == merge_as_lists(old, Head(rd).val)
       IN  concretize_relative_marks_stale(
             (concrete_index :> new_mark) @@ data, Tail(rd), size)

\* style.py:465-474
RECURSIVE concretize_relative_marks(_, _, _)
concretize_relative_marks(data, rd, size) ==
  IF rd = <<>> THEN data
  ELSE LET concrete_index == AbsKey(get_relative_variants(Head(rd).key, size)[1])
           old == IF concrete_index \in DOMAIN data
                  THEN data[concrete_index] ELSE <<>>
           new_mark == merge_as_lists(old, Head(rd).val)
       IN  concretize_relative_marks(
             (concrete_index :> new_mark) @@ data, Tail(rd), size)

\* every order in which a set can be iterated
Orders(S) ==
  {o \in [1..Cardinality(S) -> S] : \A i, j \in DOMAIN o : i # j => o[i] # o[j]}

NoView ==
  [present |-> FALSE, tick |-> 0, seq_data |-> <<>>, special |-> {},
   data |-> <<>>, concrete_special |-> <<>>]

\* prepare working on the parent itself instead of on a copy of it
prepare_in_place(mm, seq, tick, parsed_len, size, order) ==
  [parent |->
     [mm EXCEPT
        !.tick = tick,
        !.seq_data = seq.marks,
        !.special = mm.special \cup seq.special,
        !.data = concretize_relative_marks(mm.data, mm.relative_data, size)],
   view |->
     [present |-> TRUE,
      tick |-> tick,
      seq_data |-> seq.marks,
      special |-> mm.special \cup seq.special,
      data |-> concretize_relative_marks(mm.data, mm.relative_data, size),
      concrete_special |-> concretize_special_marks(order, tick, parsed_len)]]

\* style.py:440-455, MarkMap.prepare.  seq is the mark_sequence of the
\* StyledSequence: [marks |-> offset -> slot, special |-> its "special" item].
\* The result pairs the parent as prepare leaves it with the rendering copy;
\* relative_data stays shared with the parent (line 454) and the copy never
\* writes it.
prepare(mm, seq, tick, parsed_len, size, order) ==
  [parent |-> mm,
   view |->
     [present |-> TRUE,
      tick |-> tick,
      seq_data |-> seq.marks,
      special |-> mm.special \cup seq.special,
      data |-> concretize_relative_marks(mm.data, mm.relative_data, size),
      concrete_special |-> concretize_special_marks(order, tick, parsed_len)]]

\* style.py:503-511, MarkMap.__getitem__ of a rendering copy, as used by
\* get (a missing key gives the default, the empty slot)
ViewGet(view, pos, size) ==
  LET index == <<Abs(pos[1]), Abs(pos[2])>>
      key == IF index_is_relative(index)
             THEN AbsKey(get_relative_variants(index, size)[1])
             ELSE pos
  IN  IF key \in DOMAIN view.data THEN view.data[key] ELSE <<>>

Tagged(slot, origin) == [i \in DOMAIN slot |-> <<slot[i], origin>>]

SpecialAt(view, key) ==
  LET hits == SelectSeq(view.concrete_special, LAMBDA e : e.key = key)
  IN  [i \in DOMAIN hits |-> hits[i].mark]

\* get_full consulting the plane after the sequence
get_full_plane_last(view, sequence_index, pos, size) ==
  Tagged(SpecialAt(view, <<"i", sequence_index, 0>>), "sequence")
    \o Tagged(SpecialAt(view, <<"p", pos[1], pos[2]>>), "plane")
    \o Tagged(IF sequence_index \in DOMAIN view.seq_data
              THEN view.seq_data[sequence_index] ELSE <<>>, "sequence")
    \o Tagged(ViewGet(view, pos, size), "plane")

\* style.py:477-487
get_full(view, sequence_index, pos, size) ==
  Tagged(SpecialAt(view, <<"p", pos[1], pos[2]>>), "plane")
    \o Tagged(SpecialAt(view, <<"i", sequence_index, 0>>), "sequence")
    \o Tagged(ViewGet(view, pos, size), "plane")
    \o Tagged(IF sequence_index \in DOMAIN view.seq_data
              THEN view.seq_data[sequence_index] ELSE <<>>, "sequence")

\* dict.get of relative_data: the slot stored under the key, or nothing
RelGet(rd, key) ==
  LET hits == SelectSeq(rd, LAMBDA e : e.key = key)
  IN  IF hits = <<>> THEN <<>> ELSE hits[1].val

\* style.py:503-522, MarkMap.__getitem__ of the map of a plane (not a
\* rendering copy): the concrete spelling is looked up in data and every
\* spelling in relative_data.  An empty result raises KeyError.
MarkMapGet(mm, index, size) ==
  LET v == get_relative_variants(index, size)
      result == (IF AbsKey(v[1]) \in DOMAIN mm.data
                 THEN mm.data[AbsKey(v[1])] ELSE <<>>)
                  \o RelGet(mm.relative_data, v[1])
                  \o RelGet(mm.relative_data, v[2])
                  \o RelGet(mm.relative_data, v[3])
                  \o RelGet(mm.relative_data, v[4])
  IN  [err |-> IF result = <<>> THEN "KeyError" ELSE "none",
       value |-> result]

\* style.py:525-532, MarkMap.__delitem__: every spelling is popped, and
\* KeyError is raised when none of them held anything
MarkMapDel(mm, index, size) ==
  LET v == get_relative_variants(index, size)
      keys == {v[i] : i \in 1..4}
      found == AbsKey(v[1]) \in DOMAIN mm.data
                 \/ keys \cap RelKeys(mm.relative_data) # {}
  IN  [err |-> IF found THEN "none" ELSE "KeyError",
       map |-> [mm EXCEPT
                  !.data = [k \in DOMAIN @ \ {AbsKey(v[1])} |-> @[k]],
                  !.relative_data = SelectSeq(@, LAMBDA e : e.key \notin keys)]]

\* style.py:534-535, MarkMap.__len__
MarkMapLen(mm) == Cardinality(DOMAIN mm.data) + Len(mm.relative_data)

\* style.py:537-547, MarkMap.__iter__: the keys of data, then those of
\* relative_data, each as it is stored
MarkMapIter(mm) ==
  {<<Abs(k[1]), Abs(k[2])>> : k \in DOMAIN mm.data}
    \cup RelKeys(mm.relative_data)

(* -------------------------------- strs --------------------------------- *)
\* A str is the sequence of its characters, each a one-character string.
\* The words the markup is made of, by their spelling:
Spell ==
  [color |-> <<"c", "o", "l", "o", "r">>,
   foreground |-> <<"f", "o", "r", "e", "g", "r", "o", "u", "n", "d">>,
   background |-> <<"b", "a", "c", "k", "g", "r", "o", "u", "n", "d">>,
   effects |-> <<"e", "f", "f", "e", "c", "t", "s">>,
   effect |-> <<"e", "f", "f", "e", "c", "t">>,
   direction |-> <<"d", "i", "r", "e", "c", "t", "i", "o", "n">>,
   transformer |-> <<"t", "r", "a", "n", "s", "f", "o", "r", "m", "e", "r">>,
   font |-> <<"f", "o", "n", "t">>,
   char |-> <<"c", "h", "a", "r">>,
   left |-> <<"l", "e", "f", "t">>,
   right |-> <<"r", "i", "g", "h", "t">>,
   up |-> <<"u", "p">>,
   down |-> <<"d", "o", "w", "n">>,
   default |-> <<"d", "e", "f", "a", "u", "l", "t">>,
   transparent |-> <<"t", "r", "a", "n", "s", "p", "a", "r", "e", "n", "t">>,
   red |-> <<"r", "e", "d">>,
   blue |-> <<"b", "l", "u", "e">>,
   blink |-> <<"b", "l", "i", "n", "k">>,
   bold |-> <<"b", "o", "l", "d">>]

\* the word a str spells ("?" for a str that is none of the words)
Word(chars) ==
  IF \E w \in DOMAIN Spell : Spell[w] = chars
  THEN CHOOSE w \in DOMAIN Spell : Spell[w] = chars
  ELSE "?"

\* str.lower on the capitals the markup explored uses
LowerOf == ("R" :> "r") @@ ("C" :> "c") @@ ("B" :> "b")
lower(chars) ==
  [i \in DOMAIN chars |->
     IF chars[i] \in DOMAIN LowerOf THEN LowerOf[chars[i]] ELSE chars[i]]

\* str.strip(cs), str.strip() for cs = Whitespace
Whitespace == {" "}
RECURSIVE lstrip(_, _)
lstrip(chars, cs) ==
  IF chars # <<>> /\ Head(chars) \in cs THEN lstrip(Tail(chars), cs) ELSE chars
RECURSIVE rstrip(_, _)
rstrip(chars, cs) ==
  IF chars # <<>> /\ chars[Len(chars)] \in cs
  THEN rstrip(SubSeq(chars, 1, Len(chars) - 1), cs) ELSE chars
strip(chars, cs) == rstrip(lstrip(chars, cs), cs)

\* str.split(sep)
RECURSIVE split(_, _)
split(chars, sep) ==
  IF sep \notin Range(chars) THEN <<chars>>
  ELSE <<SubSeq(chars, 1, Min({i \in DOMAIN chars : chars[i] = sep}) - 1)>>
         \o split(SubSeq(chars, Min({i \in DOMAIN chars : chars[i] = sep}) + 1,
                         Len(chars)), sep)

\* int(str): an optional sign and decimal digits; anything else raises
\* ValueError (is_int is FALSE)
DigitChar == <<"0", "1", "2", "3", "4", "5", "6", "7", "8", "9">>
DigitVal(c) == (CHOOSE d \in DOMAIN DigitChar : DigitChar[d] = c) - 1
Signs == {"+", "-"}
unsigned(chars) ==
  IF chars # <<>> /\ Head(chars) \in Signs THEN Tail(chars) ELSE chars
is_int(chars) ==
  /\ unsigned(chars) # <<>>
  /\ \A i \in DOMAIN unsigned(chars) : unsigned(chars)[i] \in Range(DigitChar)
RECURSIVE digits_value(_)
digits_value(chars) ==
  IF chars = <<>> THEN 0
  ELSE 10 * digits_value(SubSeq(chars, 1, Len(chars) - 1))
         + DigitVal(chars[Len(chars)])
int_of(chars) ==
  IF Head(chars) = "-" THEN 0 - digits_value(unsigned(chars))
  ELSE digits_value(unsigned(chars))

\* str(n) for n >= 0, as the f-string of line 729 formats the span
RECURSIVE str_of(_)
str_of(n) ==
  IF n < 10 THEN <<DigitChar[n + 1]>>
  ELSE str_of(n \div 10) \o <<DigitChar[(n % 10) + 1]>>

(* --------------------------- StyledSequence ---------------------------- *)
\* The state of one StyledSequence (style.py:121-130) is a record
\*   last    _last_index_processed (NoIndex for None)
\*   pos     current_position
\*   ctx     the attributes of self.context
\*   cm      self.locals.context_map: attribute -> stack of <<value, origin>>
\*   sanity  _sanity_counter
\*   parent  _parent_context_data
\*   err     the exception the current call is propagating ("none" if none)
\* The lists of transformers are objects that several names may refer to:
\*   heap    the contents of the list objects, by identity; heap[1] and
\*           heap[2] are the transformers and pretransformers lists of the
\*           parent context
\*   lists   the list object context.transformers / .pretransformers is
\*   lstack  context_map for these two attributes: <<list object, origin>>
\*   active  _active_transformers
\*   made    the transformers copied so far (the identity of the next copy)
\* and, for stating properties, history fields of the current call:
\*   replayed  _reprocess_from_start ran
\*   nested    _reprocess_from_start was entered while it was running
\*   pushes    for each transformer pushed, the list that was current, its
\*             contents before and after the push, and the list installed
\* The environment E of a call is [n, start, view, size]: len(self.text),
\* starting_point, self.marks and text_plane.size.

\* style.py:188, the attributes of a Mark that stack a transformer, with the
\* attribute of the context each is kept in
seq_attrs ==
  [transformer |-> "transformers", pretransformer |-> "pretransformers"]
ListAttrs == {"transformers", "pretransformers"}

\* planes.py:111 and 255-256, Text.transformers_map: the names the markup
\* can call transformers by
transformers_map == {<<"t">>, <<"u">>}

\* what remove() leaves of a list: the other members, in order (a member
\* that is not there is passed over, style.py:237)
RECURSIVE ListRemove(_, _)
ListRemove(list, tr) ==
  IF list = <<>> THEN <<>>
  ELSE IF Head(list) = tr THEN Tail(list)
  ELSE <<Head(list)>> \o ListRemove(Tail(list), tr)

NewSequence(start) ==
  [last |-> NoIndex, pos |-> start, ctx |-> ContextDefaults,
   cm |-> [a \in Attrs |-> <<>>], sanity |-> 0, parent |-> ContextDefaults,
   err |-> "none", replayed |-> FALSE, nested |-> FALSE,
   heap |-> << <<>>, <<>>, <<>>, <<>> >>,
   lists |-> [transformers |-> 3, pretransformers |-> 4],
   lstack |-> [k \in ListAttrs |-> <<>>], active |-> <<>>, made |-> 0,
   pushes |-> <<>>]

\* a pop that takes the top of the stack whatever its origin
PopOrigin_top(stack, origin) ==
  IF stack = <<>> THEN stack ELSE SubSeq(stack, 1, Len(stack) - 1)

\* style.py:199-202: drop the topmost entry pushed by this origin
PopOrigin(stack, origin) ==
  LET hits == {i \in DOMAIN stack : stack[i][2] = origin}
  IN  IF hits = {} THEN stack
      ELSE LET k == Max(hits)
           IN  SubSeq(stack, 1, k - 1) \o SubSeq(stack, k + 1, Len(stack))

\* style.py:208-212: the name and the span of a transformer given as a str,
\* rest being the length of the text from the index on.  Unpacking anything
\* but two parts, or int() of the second, raises ValueError.
span_parts(value, parts, rest) ==
  IF " " \notin Range(value)
  THEN [err |-> "none", name |-> value, spam |-> rest]
  ELSE IF Len(parts) # 2 \/ ~is_int(parts[Len(parts)])
       THEN [err |-> "ValueError", name |-> value, spam |-> rest]
  ELSE [err |-> "none", name |-> parts[1], spam |-> int_of(parts[2])]

transformer_span(value, rest) == span_parts(value, split(value, " "), rest)

\* style.py:213-218: the copy of the transformer the plane knows by the
\* name, with the values injected; copy() gives a new object
new_transformer(s, sp, index) ==
  [name |-> sp.name, id |-> s.made + 1, sequence_len |-> sp.spam,
   sequence_absolute_start |-> index]

\* a push that appends to the list that is current
install_in_place(s, key, sp, mark_origin, index) ==
  IF sp.err # "none" THEN [s EXCEPT !.err = sp.err]
  ELSE IF sp.name \notin transformers_map
       THEN [s EXCEPT !.err = "AttributeError"]
  ELSE [s EXCEPT
          !.heap[s.lists[key]] = Append(@, new_transformer(s, sp, index)),
          !.made = @ + 1,
          !.active = Append(@, new_transformer(s, sp, index)),
          !.lstack[key] = Append(@, <<s.lists[key], mark_origin>>)]

\* style.py:207-225 for the span sp: a name the plane does not know gives
\* None, and setting sequence_len on it raises AttributeError; the new list
\* is a copy of the current one with the transformer appended
install_transformer(s, key, sp, mark_origin, index) ==
  IF sp.err # "none" THEN [s EXCEPT !.err = sp.err]
  ELSE IF sp.name \notin transformers_map
       THEN [s EXCEPT !.err = "AttributeError"]
  ELSE [s EXCEPT
          !.heap = Append(@, Append(s.heap[s.lists[key]],
                                    new_transformer(s, sp, index))),
          !.made = @ + 1,
          !.active = Append(@, new_transformer(s, sp, index)),
          !.lstack[key] = Append(@, <<Len(s.heap) + 1, mark_origin>>)]

\* style.py:204-225 for an attribute of seq_attrs
push_transformer(E, s, key, value, mark_origin, index) ==
  install_transformer(s, key, transformer_span(value, E.n - index),
                      mark_origin, index)

\* the push as it is seen from outside: what the list that was current held
\* before and after, and what the list installed holds
push_recorded(s, key, s2) ==
  IF s2.err # "none" THEN s2
  ELSE [s2 EXCEPT
          !.pushes =
             Append(@, [old |-> s.lists[key],
                        new |-> s2.lstack[key][Len(s2.lstack[key])][1],
                        before |-> s.heap[s.lists[key]],
                        after |-> s2.heap[s.lists[key]],
                        installed |->
                          s2.heap[s2.lstack[key][Len(s2.lstack[key])][1]],
                        transformer |-> s2.active[Len(s2.active)]])]

push_key(E, s, attributes, a, mark_origin, index) ==
  IF a \notin DOMAIN attributes \/ s.err # "none" THEN s
  ELSE push_recorded(s, seq_attrs[a],
                     push_transformer(E, s, seq_attrs[a], attributes[a],
                                      mark_origin, index))

\* the attributes of seq_attrs a Mark names that stand for the list key
NamesOf(key, names) == {a \in names \cap DOMAIN seq_attrs : seq_attrs[a] = key}

\* style.py:193-202 for the lists
pop_lists(s, pop_attributes, mark_origin) ==
  [s EXCEPT
     !.lstack = [k \in ListAttrs |->
                   IF NamesOf(k, pop_attributes) # {}
                   THEN PopOrigin(@[k], mark_origin) ELSE @[k]]]

\* style.py:229-231 for the lists: the top of each changed stack becomes
\* the list of the context; s0 is the state before the pops
write_lists(s0, s, attributes, pop_attributes) ==
  IF s.err # "none" THEN s
  ELSE [s EXCEPT
          !.lists = [k \in ListAttrs |->
                       IF /\ \/ (NamesOf(k, pop_attributes) # {}
                                   /\ s0.lstack[k] # <<>>)
                             \/ NamesOf(k, DOMAIN attributes) # {}
                          /\ s.lstack[k] # <<>>
                       THEN s.lstack[k][Len(s.lstack[k])][1] ELSE @[k]]]

\* style.py:187-231 for the attributes of seq_attrs
push_lists(E, s0, s, attributes, pop_attributes, mark_origin, index) ==
  write_lists(
    s0,
    push_key(E, push_key(E, pop_lists(s, pop_attributes, mark_origin),
                         attributes, "transformer", mark_origin, index),
             attributes, "pretransformer", mark_origin, index),
    attributes, pop_attributes)

\* _context_push that writes back only the attributes it pushed
context_push_stale(E, s, attributes, pop_attributes, mark_origin, index) ==
  LET popped == [a \in Attrs |->
                   IF a \in pop_attributes THEN PopOrigin(s.cm[a], mark_origin)
                   ELSE s.cm[a]]
      pushed == [a \in Attrs |->
                   IF a \in DOMAIN attributes
                   THEN Append(popped[a], <<attributes[a], mark_origin>>)
                   ELSE popped[a]]
  IN  [s EXCEPT
         !.cm = pushed,
         !.ctx = [a \in Attrs |->
                    IF a \in DOMAIN attributes
                    THEN pushed[a][Len(pushed[a])][1] ELSE s.ctx[a]]]

\* style.py:187-231, _context_push: the attributes with one value, then
\* those of seq_attrs
context_push(E, s, attributes, pop_attributes, mark_origin, index) ==
  LET popped == [a \in Attrs |->
                   IF a \in pop_attributes THEN PopOrigin(s.cm[a], mark_origin)
                   ELSE s.cm[a]]
      pushed == [a \in Attrs |->
                   IF a \in DOMAIN attributes
                   THEN Append(popped[a], <<attributes[a], mark_origin>>)
                   ELSE popped[a]]
      changed == {a \in pop_attributes \cap Attrs : s.cm[a] # <<>>}
                   \cup (DOMAIN attributes \cap Attrs)
  IN  push_lists(
        E, s,
        [s EXCEPT
           !.cm = pushed,
           !.ctx = [a \in Attrs |->
                      IF a \in changed /\ pushed[a] # <<>>
                      THEN pushed[a][Len(pushed[a])][1] ELSE s.ctx[a]]],
        attributes, pop_attributes, mark_origin, index)

\* a moveto that takes the origin for a retained axis
apply_moveto_origin(pos, moveto) ==
  << IF moveto[1] # RETAIN_POS THEN moveto[1] ELSE 0,
     IF moveto[2] # RETAIN_POS THEN moveto[2] ELSE 0 >>

\* style.py:147-152
apply_moveto(pos, moveto) ==
  << IF moveto[1] # RETAIN_POS THEN moveto[1] ELSE pos[1],
     IF moveto[2] # RETAIN_POS THEN moveto[2] ELSE pos[2] >>

\* style.py:273-277: the attributes of the parent are written back, the
\* lists of transformers as new copies, and any other attribute of the
\* context stays
reset_context(s) ==
  [s EXCEPT !.ctx = [a \in Attrs |->
                       IF a \in ContextAttrs THEN s.parent[a] ELSE @[a]],
            !.heap = @ \o <<s.heap[1], s.heap[2]>>,
            !.lists = [transformers |-> Len(s.heap) + 1,
                       pretransformers |-> Len(s.heap) + 2]]

RECURSIVE process_to(_, _, _, _)
RECURSIVE apply_marks(_, _, _, _, _)
RECURSIVE replay_loop(_, _, _, _, _)

\* style.py:155: the index is recorded unless the loop raised
marks_applied(done, index) ==
  IF done.err # "none" THEN done ELSE [done EXCEPT !.last = index]

\* style.py:142-156: the marks are fetched once, for the position on entry
process_marks(E, s, index, depth) ==
  marks_applied(
    apply_marks(E, s, get_full(E.view, index, s.pos, E.size), index, depth),
    index)

\* style.py:169-170: the counter is restored unless the loop raised
replay_done(s) ==
  IF s.err # "none" THEN s ELSE [s EXCEPT !.sanity = @ - 1]

\* style.py:159-165, up to the loop
replay_entered(s, depth) ==
  [s EXCEPT !.sanity = @ + 1, !.replayed = TRUE, !.nested = @ \/ depth > 0]

\* style.py:158-170
reprocess_from_start(E, s, index, depth) ==
  IF s.sanity + 1 > 1
  THEN [replay_entered(s, depth) EXCEPT !.err = "RuntimeError"]
  ELSE replay_done(
         replay_loop(E,
                     [reset_context(replay_entered(s, depth))
                        EXCEPT !.last = NoIndex],
                     0, index, depth + 1))

\* style.py:132-140.  depth counts the _reprocess_from_start frames on the
\* call stack.
process_to(E, s, index, depth) ==
  IF s.last = NoIndex /\ index = 0
  THEN process_marks(E, [s EXCEPT !.pos = E.start], index, depth)
  ELSE IF s.last = NoIndex \/ index # s.last + 1
       THEN reprocess_from_start(E, s, index, depth)
       ELSE process_marks(E, s, index, depth)

\* style.py:166-167
replay_loop(E, s, i, index, depth) ==
  IF i > index \/ s.err # "none" THEN s
  ELSE replay_loop(E, process_to(E, s, i, depth), i + 1, index, depth)

\* style.py:145-146
mark_attributes(E, s, m, origin, index) ==
  IF m.attributes # <<>> \/ m.pop_attributes # {}
  THEN context_push(E, s, m.attributes, m.pop_attributes, origin, index)
  ELSE s

\* style.py:153-154, skipped when reading moveto raised
mark_rmoveto(s, m) ==
  IF s.err # "none" THEN s
  ELSE IF m.rmoveto # <<>> THEN [s EXCEPT !.pos = V2Add(@, m.rmoveto)]
       ELSE s

\* style.py:147-152.  Reading moveto of a rewinding Mark calls
\* _process_to(rewind) and gives None.
mark_moveto(E, s, m, depth) ==
  IF m.rewind # NoIndex THEN process_to(E, s, m.rewind, depth)
  ELSE IF m.moveto # <<>> THEN [s EXCEPT !.pos = apply_moveto(@, m.moveto)]
       ELSE s

\* style.py:143-154, one turn of the loop for the pair <<mark, origin>>
apply_mark(E, s, tagged, index, depth) ==
  mark_rmoveto(
    mark_moveto(E, mark_attributes(E, s, tagged[1], tagged[2], index),
                tagged[1], depth),
    tagged[1])

apply_marks(E, s, ms, index, depth) ==
  IF ms = <<>> \/ s.err # "none" THEN s
  ELSE apply_marks(E, apply_mark(E, s, Head(ms), index, depth), Tail(ms),
                   index, depth)

\* a call of _process_to(index) made from outside the sequence
call_process_to(E, s, index) ==
  process_to(E, [s EXCEPT !.err = "none", !.replayed = FALSE,
                          !.nested = FALSE], index, 0)

\* an advance that always goes one cell to the right
advance_right(s) ==
  [position |-> s.pos,
   seq |-> IF s.err # "none" THEN s
           ELSE [s EXCEPT !.pos = V2Add(@, <<1, 0>>)]]

\* style.py:247-249: the position read, then the advance by the direction
advance(s) ==
  [position |-> s.pos,
   seq |-> IF s.err # "none" THEN s
           ELSE [s EXCEPT !.pos = V2Add(@, DirVec(s.ctx.direction))]]

\* style.py:244-249: the position of the character and the state after it
get_position_at(E, s, index) ==
  advance(IF s.err = "none" /\ s.last # index
          THEN process_to(E, s, index, 0) ELSE s)

\* style.py:173-184, _enter_iteration, with the copy prepare returned
enter_iteration(s) ==
  [s EXCEPT !.cm = [a \in Attrs |->
                      IF a \notin ContextAttrs /\ s.ctx[a] = "UNSET" THEN <<>>
                      ELSE << <<s.ctx[a], "original">> >>],
            !.lstack = [k \in ListAttrs |-> << <<s.lists[k], "original">> >>],
            !.active = <<>>, !.made = 0, !.pushes = <<>>]

\* style.py:279-283: a new Context, filled from the owner's; lists holds
\* the contents of the owner's lists of transformers
prepare_context(s, source, lists) ==
  reset_context([s EXCEPT !.parent = source, !.ctx = ContextDefaults,
                          !.heap = <<lists.transformers,
                                     lists.pretransformers>>])

\* style.py:233-242, _remove_transformers: the transformer leaves
\* _active_transformers, the two lists of the context and every list kept
\* on their stacks
listed(s) ==
  {s.lists[k] : k \in ListAttrs}
    \cup UNION {{s.lstack[k][i][1] : i \in DOMAIN s.lstack[k]} :
                 k \in ListAttrs}

remove_transformers(s, tr) ==
  [s EXCEPT !.active = ListRemove(@, tr),
            !.heap = [i \in DOMAIN @ |->
                        IF i \in listed(s) THEN ListRemove(@[i], tr)
                        ELSE @[i]]]

\* style.py:262-264
expired(tr, index) ==
  index - tr.sequence_absolute_start >= tr.sequence_len

\* style.py:258-266: the active transformers whose span is over are removed
RECURSIVE remove_all(_, _)
remove_all(s, trs) ==
  IF trs = <<>> THEN s
  ELSE remove_all(remove_transformers(s, Head(trs)), Tail(trs))

update_transformers(s, index) ==
  IF s.err # "none" THEN s
  ELSE remove_all(s, SelectSeq(s.active, LAMBDA tr : expired(tr, index)))

\* style.py:255-268: the triple as [index, context, position], the context
\* with its lists of transformers as they are when it is yielded
yielded_triple(r, index) ==
  [seq |-> r.seq,
   yielded |-> [index |-> index, context |-> r.seq.ctx,
                position |-> r.position,
                transformers |-> r.seq.heap[r.seq.lists.transformers],
                pretransformers |-> r.seq.heap[r.seq.lists.pretransformers]]]

\* style.py:258-266 on the state get_position_at left
after_position(r, index) ==
  [position |-> r.position, seq |-> update_transformers(r.seq, index)]

\* style.py:254-268, one turn of the loop of __iter__: the triple yielded
\* for index and the state after it
iter_step(E, s, index) ==
  yielded_triple(
    after_position(get_position_at(E, call_process_to(E, s, index), index),
                   index),
    index)

(* ------------------------------ TextPlane ------------------------------ *)
\* planes.py:16-46, CharPlaneData: the cells written, with the bounds taken
\* from the plane's size by _update_size
NewPlaneData(size) == [width |-> size[1], height |-> size[2], cells |-> <<>>]

InBounds(pd, pos) ==
  0 <= pos[1] /\ pos[1] < pd.width /\ 0 <= pos[2] /\ pos[2] < pd.height

\* a wrap Mark on the first row only
reset_marks_first_row(mm, y, height) ==
  IF y >= height THEN mm
  ELSE MarkMapSet(mm, <<NoneIdx, Abs(y)>>, <<WrapMark>>)

\* planes.py:187-194, _reset_marks on a cleared MarkMap
RECURSIVE reset_marks(_, _, _)
reset_marks(mm, y, height) ==
  IF y >= height THEN mm
  ELSE reset_marks(MarkMapSet(mm, <<NoneIdx, Abs(y)>>, <<WrapMark>>),
                   y + 1, height)

\* values.py, EMPTY: what a cell never written reads as
EMPTY == "EMPTY"

\* planes.py:38-41, CharPlaneData.__getitem__
plane_getitem(pd, pos) ==
  IF ~InBounds(pd, pos) THEN [err |-> "IndexError", value |-> EMPTY]
  ELSE [err |-> "none",
        value |-> IF pos \in DOMAIN pd.cells THEN pd.cells[pos] ELSE EMPTY]

\* a write that does not look at the bounds
plane_setitem_unchecked(pd, pos, value) ==
  [err |-> "none", data |-> [pd EXCEPT !.cells = (pos :> value) @@ @]]

\* planes.py:43-46, CharPlaneData.__setitem__
plane_setitem(pd, pos, value) ==
  IF ~InBounds(pd, pos) THEN [err |-> "IndexError", data |-> pd]
  ELSE [err |-> "none", data |-> [pd EXCEPT !.cells = (pos :> value) @@ @]]

\* planes.py:277-302, Text.blit of one cell of plane 1 without padding, with
\* clear: the owner's cell takes the character of the plane's cell
blit(cv, pd, pos) == (pos :> plane_getitem(pd, pos).value) @@ cv

\* planes.py:269-275, Text._char_at after the write w of the cell went
\* through: the position is kept and the cell is blitted
cell_written(st, w, pos) ==
  [st EXCEPT !.plane = w.data, !.last_pos = pos,
             !.canvas = blit(@, w.data, pos)]

\* planes.py:267-275, Text._char_at on [plane, last_pos, canvas]; the
\* IndexError of a position out of range is caught and nothing else is done
char_at(st, char, pos) ==
  IF plane_setitem(st.plane, pos, char).err = "IndexError" THEN st
  ELSE cell_written(st, plane_setitem(st.plane, pos, char), pos)

Chars == <<"a", "b", "c", "d", "e", "f">>
TextOf(n) == SubSeq(Chars, 1, n)

\* style.py:295-300, the loop of StyledSequence.render over __iter__, from
\* index on; st is [seq, out, plane, last_pos], out the triples yielded
RECURSIVE render_loop(_, _, _, _)

\* style.py:295-296: the character of a yielded triple is written
render_turn(E, txt, st, r, index) ==
  IF r.seq.err # "none" THEN [st EXCEPT !.seq = r.seq]
  ELSE render_loop(
         E, txt,
         [char_at(st, txt[index + 1], r.yielded.position)
            EXCEPT !.seq = r.seq, !.out = Append(@, r.yielded)],
         index + 1)

render_loop(E, txt, st, index) ==
  IF index >= Len(txt) THEN st
  ELSE render_turn(E, txt, st, iter_step(E, st.seq, index), index)

(* ------------------------------ MLTokenizer ---------------------------- *)
\* style.py:632, _parser = (?<!\[)\[[^\[].*?\] : the index of the last
\* character of the match that starts at raw[i], 0 when there is none.  The
\* bracket is not preceded by a bracket, is followed by a character that is
\* not one, and the match ends at the first closing bracket after that.
parser_match(chars, i) ==
  IF /\ chars[i] = "["
     /\ (i = 1 \/ chars[i - 1] # "[")
     /\ i + 1 <= Len(chars)
     /\ chars[i + 1] # "["
     /\ \E j \in (i + 2)..Len(chars) : chars[j] = "]"
  THEN Min({j \in (i + 2)..Len(chars) : chars[j] = "]"})
  ELSE 0

\* annotate_and_strip_tokens keying a token by its place in the raw text
annotate_raw_position(chars, i, j, st) ==
  [st EXCEPT
     !.raw_tokens = Append(@, <<i - 1,
                                strip(SubSeq(chars, i, j), {"[", "]"})>>),
     !.offset = @ + (j - i + 1)]

\* style.py:659-664, annotate_and_strip_tokens for the match chars[i..j]
annotate_and_strip_tokens(chars, i, j, st) ==
  [st EXCEPT
     !.raw_tokens = Append(@, <<(i - 1) - st.offset,
                                strip(SubSeq(chars, i, j), {"[", "]"})>>),
     !.offset = @ + (j - i + 1)]

\* style.py:666, _parser.sub over the raw text from chars[i] on: the matches
\* are replaced by "" and the rest is kept
RECURSIVE parser_sub(_, _, _)
parser_sub(chars, i, st) ==
  IF i > Len(chars) THEN st
  ELSE IF parser_match(chars, i) = 0
       THEN parser_sub(chars, i + 1,
                       [st EXCEPT !.parsed_text = Append(@, chars[i])])
       ELSE parser_sub(chars, parser_match(chars, i) + 1,
                       annotate_and_strip_tokens(chars, i,
                                                 parser_match(chars, i), st))

\* style.py:689-706: what a token names.  The record is
\* [action, value, has_value (value is not None), starting_tag, err]
named(action, value, has_value) ==
  [err |-> "none", action |-> action, value |-> value,
   has_value |-> has_value, starting_tag |-> TRUE]

\* style.py:691-696, for a token "action: value"
colon_token(action, value) ==
  named(IF action = Spell.effect THEN Spell.effects ELSE action,
        IF Word(action) \in {"transformer", "font", "char"} THEN value
        ELSE lower(value),
        TRUE)

\* style.py:690: unpacking anything but two parts raises ValueError
colon_parts(parts) ==
  IF Len(parts) # 2 THEN [named(<<>>, <<>>, FALSE) EXCEPT !.err = "ValueError"]
  ELSE colon_token(lower(strip(parts[1], Whitespace)),
                   strip(parts[2], Whitespace))

\* style.py:697-701, for a token without a colon
plain_token(action) ==
  IF Word(action) \in {"left", "right", "up", "down"}
  THEN named(Spell.direction, action, TRUE)
  ELSE named(action, <<>>, FALSE)

\* style.py:702-706
closing_tag(f) ==
  IF f.action # <<>> /\ Head(f.action) = "/"
  THEN [f EXCEPT !.action = Tail(@), !.starting_tag = FALSE]
  ELSE f

token_action(token) ==
  closing_tag(IF ":" \in Range(token) THEN colon_parts(split(token, ":"))
              ELSE plain_token(strip(token, Whitespace)))

\* style.py:732
attribute_names ==
  {"effects", "color", "foreground", "background", "direction",
   "pretransformer", "char", "font"}
ColorNames == {"color", "foreground", "background"}

\* the members of Effects the markup explored names
EffectNames == {"blink", "bold"}

\* Directions by the upper-cased name (style.py:739)
UpperDir == [left |-> "LEFT", right |-> "RIGHT", up |-> "UP", down |-> "DOWN"]

\* style.py:708-714 and 736-742: the value a starting tag pushes.  A color
\* is kept by its name, the sum of the (distinct) Effects members named is
\* the set of their names, a direction is the member of Directions, and the
\* other attributes keep the str.
attribute_value(a, f) ==
  IF a \in ColorNames
  THEN IF f.value = Spell.default
       THEN (IF a = "background" THEN "DEFAULT_BG" ELSE "DEFAULT_FG")
       ELSE IF f.value = Spell.transparent THEN "TRANSPARENT"
       ELSE Word(f.value)
  ELSE IF a = "effects"
       THEN {Word(strip(v, Whitespace)) : v \in Range(split(f.value, "|"))}
              \cap EffectNames
  ELSE IF a = "direction" THEN UpperDir[Word(f.value)]
  ELSE f.value

\* a coordinate tag whose signed x makes the y relative too
coordinate_of_both(nx, ny) ==
  IF Head(nx) \in Signs
  THEN Mark(NoAttr, {}, <<>>, <<int_of(nx), int_of(ny)>>)
  ELSE IF Head(ny) \in Signs
       THEN Mark(NoAttr, {}, <<int_of(nx), RETAIN_POS>>, <<0, int_of(ny)>>)
       ELSE Mark(NoAttr, {}, <<int_of(nx), int_of(ny)>>, <<>>)

\* style.py:751-760
coordinate_of(nx, ny) ==
  IF Head(nx) \in Signs /\ Head(ny) \in Signs
  THEN Mark(NoAttr, {}, <<>>, <<int_of(nx), int_of(ny)>>)
  ELSE IF Head(nx) \in Signs /\ Head(ny) \notin Signs
       THEN Mark(NoAttr, {}, <<RETAIN_POS, int_of(ny)>>, <<int_of(nx), 0>>)
  ELSE IF Head(nx) \notin Signs /\ Head(ny) \in Signs
       THEN Mark(NoAttr, {}, <<int_of(nx), RETAIN_POS>>, <<0, int_of(ny)>>)
  ELSE Mark(NoAttr, {}, <<int_of(nx), int_of(ny)>>, <<>>)

\* a coordinate tag that is dropped when it cannot be read
coordinate_mark_lenient(parts) ==
  IF Len(parts) # 2
       \/ ~is_int(strip(parts[1], Whitespace))
       \/ ~is_int(strip(parts[Len(parts)], Whitespace))
  THEN [err |-> "none", mark |-> Mark(NoAttr, {}, <<>>, <<>>)]
  ELSE [err |-> "none",
        mark |-> coordinate_of(strip(parts[1], Whitespace),
                               strip(parts[2], Whitespace))]

\* style.py:748-750: unpacking or int() may raise ValueError
coordinate_mark(parts) ==
  IF Len(parts) # 2
       \/ ~is_int(strip(parts[1], Whitespace))
       \/ ~is_int(strip(parts[Len(parts)], Whitespace))
  THEN [err |-> "ValueError", mark |-> Mark(NoAttr, {}, <<>>, <<>>)]
  ELSE [err |-> "none",
        mark |-> coordinate_of(strip(parts[1], Whitespace),
                               strip(parts[2], Whitespace))]

\* a tokenizer that refuses the names it does not know
token_mark_strict(a, f) ==
  IF a \in attribute_names
  THEN IF ~f.starting_tag
       THEN [err |-> "none", mark |-> Mark(NoAttr, {a}, <<>>, <<>>)]
       ELSE IF \/ (~f.has_value /\ a \notin {"char", "font", "pretransformer"})
               \/ (a = "direction" /\ Word(f.value) \notin DOMAIN UpperDir)
            THEN [err |-> "AttributeError",
                  mark |-> Mark(NoAttr, {}, <<>>, <<>>)]
            ELSE [err |-> "none",
                  mark |-> Mark((a :> attribute_value(a, f)), {}, <<>>, <<>>)]
  ELSE IF "," \in Range(f.action) THEN coordinate_mark(split(f.action, ","))
  ELSE [err |-> "KeyError", mark |-> Mark(NoAttr, {}, <<>>, <<>>)]

\* style.py:732-762: the Mark of a token whose action, after the renaming of
\* transformer, is the word a.  A starting tag without a value, or one that
\* names no member of Directions, raises (the exception is not told apart).
token_mark(a, f) ==
  IF a \in attribute_names
  THEN IF ~f.starting_tag
       THEN [err |-> "none", mark |-> Mark(NoAttr, {a}, <<>>, <<>>)]
       ELSE IF \/ (~f.has_value /\ a \notin {"char", "font", "pretransformer"})
               \/ (a = "direction" /\ Word(f.value) \notin DOMAIN UpperDir)
            THEN [err |-> "AttributeError",
                  mark |-> Mark(NoAttr, {}, <<>>, <<>>)]
            ELSE [err |-> "none",
                  mark |-> Mark((a :> attribute_value(a, f)), {}, <<>>, <<>>)]
  ELSE IF "," \in Range(f.action) THEN coordinate_mark(split(f.action, ","))
  ELSE [err |-> "none", mark |-> Mark(NoAttr, {}, <<>>, <<>>)]

\* a store that keeps only the last Mark of an offset
store_mark_last(st, offset, tm) ==
  IF tm.err # "none" THEN [st EXCEPT !.err = tm.err]
  ELSE [st EXCEPT !.mark_sequence = (offset :> <<tm.mark>>) @@ @]

\* style.py:762-765, Mark.merge (587-592) on slots
store_mark(st, offset, tm) ==
  IF tm.err # "none" THEN [st EXCEPT !.err = tm.err]
  ELSE [st EXCEPT
          !.mark_sequence =
             (offset :> (IF offset \in DOMAIN @ THEN Append(@[offset], tm.mark)
                         ELSE <<tm.mark>>)) @@ @]

\* style.py:725-729: the span is appended to the value of the Mark found at
\* the opening offset, the one at oppening_repeat when the slot is a list
annotate_span(st, top, k, offset) ==
  IF k > Len(st.mark_sequence[top.offset]) THEN [st EXCEPT !.err = "IndexError"]
  ELSE IF "pretransformer"
            \notin DOMAIN st.mark_sequence[top.offset][k].attributes
       THEN [st EXCEPT !.err = "TypeError"]
  ELSE [st EXCEPT
          !.mark_sequence[top.offset][k].attributes =
             ("pretransformer" :>
                (@["pretransformer"] \o <<" ">> \o str_of(offset - top.offset)))]

\* style.py:721-729, a closing transformer tag
close_transformer(st, top, offset) ==
  IF ~top.has_value THEN [st EXCEPT !.err = "TypeError"]
  ELSE IF " " \in Range(top.value) THEN st
  ELSE annotate_span(st, top,
                     IF Len(st.mark_sequence[top.offset]) = 1 THEN 1
                     ELSE top.repeat + 1,
                     offset)

\* style.py:717-730
transformer_tag(st, offset, f) ==
  IF f.starting_tag
  THEN [st EXCEPT
          !.transformer_stack =
             Append(@, [value |-> f.value, has_value |-> f.has_value,
                        offset |-> offset,
                        repeat |-> st.offset_repeat_counter])]
  ELSE IF st.transformer_stack = <<>> THEN [st EXCEPT !.err = "IndexError"]
  ELSE close_transformer(
         [st EXCEPT !.transformer_stack = SubSeq(@, 1, Len(@) - 1)],
         st.transformer_stack[Len(st.transformer_stack)], offset)

\* style.py:715-716: ast is not imported by the module
tuple_color(f) ==
  /\ f.has_value
  /\ f.value # <<>>
  /\ Head(f.value) = "("
  /\ Word(f.action) \in ColorNames

\* style.py:707-765 for one token, after its action was read
token_step(st, offset, f) ==
  IF f.err # "none" THEN [st EXCEPT !.err = f.err]
  ELSE IF tuple_color(f) THEN [st EXCEPT !.err = "NameError"]
  ELSE IF Word(f.action) = "transformer"
       THEN IF transformer_tag(st, offset, f).err # "none"
            THEN transformer_tag(st, offset, f)
            ELSE store_mark(transformer_tag(st, offset, f), offset,
                            token_mark("pretransformer", f))
       ELSE store_mark(st, offset, token_mark(Word(f.action), f))

\* style.py:680-685
count_repeat(st, offset) ==
  [st EXCEPT
     !.offset_repeat_counter = IF offset = st.last_offset THEN @ + 1 ELSE 0,
     !.last_offset = offset]

\* style.py:669-765, _tokens_to_marks over the tokens from the i-th on
RECURSIVE tokens_to_marks(_, _, _)
tokens_to_marks(raw_tokens, i, st) ==
  IF i > Len(raw_tokens) \/ st.err # "none" THEN st
  ELSE tokens_to_marks(
         raw_tokens, i + 1,
         token_step(count_repeat(st, raw_tokens[i][1]), raw_tokens[i][1],
                    token_action(raw_tokens[i][2])))

\* style.py:651-667, MLTokenizer.parse: [parsed_text, mark_sequence, err]
parse(chars) ==
  [parsed_text |->
     parser_sub(chars, 1, [parsed_text |-> <<>>, raw_tokens |-> <<>>,
                           offset |-> 0]).parsed_text,
   mark_sequence |->
     tokens_to_marks(
       parser_sub(chars, 1, [parsed_text |-> <<>>, raw_tokens |-> <<>>,
                             offset |-> 0]).raw_tokens,
       1,
       [mark_sequence |-> <<>>, transformer_stack |-> <<>>,
        last_offset |-> -1, offset_repeat_counter |-> -1,
        err |-> "none"]).mark_sequence,
   err |->
     tokens_to_marks(
       parser_sub(chars, 1, [parsed_text |-> <<>>, raw_tokens |-> <<>>,
                             offset |-> 0]).raw_tokens,
       1,
       [mark_sequence |-> <<>>, transformer_stack |-> <<>>,
        last_offset |-> -1, offset_repeat_counter |-> -1,
        err |-> "none"]).err]

(* -------------------------------- state -------------------------------- *)
\* res before any call on the MarkMap
NoCall == [op |-> "none"]

\* no thread but the caller's
NoThreads == <<>>

VARIABLES
  text,            \* StyledSequence.text
  mark_sequence,   \* StyledSequence.mark_sequence: [marks, special]
  starting_point,  \* StyledSequence.starting_point
  owner_context,   \* the attributes of text_plane.owner.context
  owner_lists,     \* the contents of the transformers and pretransformers
                   \* lists of text_plane.owner.context
  size,            \* Text.size
  marks,           \* Text.marks, the plane's MarkMap
  ticks,           \* Text.ticks
  writtings,       \* Text.writtings
  plane,           \* Text.plane, the CharPlaneData
  canvas,          \* the cells of the owner the plane was blitted to
  last_pos,        \* planes[current_plane]["last_pos"] (<<>>: not set)
  sq,              \* the StyledSequence
  view,            \* StyledSequence.marks, the prepared copy (NoView: unset)
  out,             \* the triples yielded by the last iteration
  pc,              \* "idle", or "iter" while a consumer iterates the sequence
  idx,             \* the index the suspended generator yields next
  accesses,        \* _process_to calls the consumer made in this iteration
  passes,          \* iterations the consumer began
  called,          \* history: the last call on the sequence, <<kind, index>>
  res,             \* the last call on the plane's MarkMap and what it gave
  log,             \* history: the calls that changed the MarkMap or the size
  placed,          \* history: <<tick, index function, key>> of each
                   \* SpecialMark a render pass concretized
  raw,             \* the text with markup handed to the tokenizer
  threads,         \* the threads that render to the planes of two owners
  tagged           \* a TaggedDict, its views and the threads that use it

\* no TaggedDict in use
NoTagged == <<>>

vars ==
  <<text, mark_sequence, starting_point, owner_context, owner_lists, size,
    marks, ticks,
    writtings, plane, canvas, last_pos, sq, view, out, pc, idx, accesses,
    passes, called, res, log, placed, raw, threads, tagged>>

inputs ==
  <<text, mark_sequence, starting_point, owner_context, owner_lists, size>>

\* what the passes over a sequence leave alone
aux == <<res, log, raw>>

\* the state of the caller's thread
sequential ==
  <<text, mark_sequence, starting_point, owner_context, owner_lists, size,
    marks, ticks, writtings, plane, canvas, last_pos, sq, view, out, pc, idx,
    accesses, passes, called, res, log, placed, raw>>

Env(v) == [n |-> Len(text), start |-> starting_point, view |-> v, size |-> size]

(* ------------------------------- inputs -------------------------------- *)
\* The places a text is started at
Starts == {<<0, 0>>, <<2, 0>>}
OwnerContexts ==
  {ContextDefaults,
   [color |-> "green", background |-> "DEFAULT_BG", direction |-> "DOWN",
    effects |-> {}, char |-> <<"FULL_BLOCK">>, font |-> <<>>,
    foreground |-> "UNSET"]}

\* Marks as the tokenizer builds them (style.py:732-760) and plain retains
SeqPool ==
  {Push("color", "red"), Push("color", "blue"), Pop("color"),
   Push("background", "red"), Pop("background"),
   Push("direction", "DOWN"), Pop("direction"),
   MoveTo(1, 1), MoveTo(2, RETAIN_POS), MoveTo(RETAIN_POS, 1),
   Mark(NoAttr, {}, <<RETAIN_POS, 1>>, <<1, 0>>),
   Mark(NoAttr, {}, <<0, RETAIN_POS>>, <<0, 1>>),
   RMoveTo(-1, 1)}

\* the mark_sequence built from <<offset, Mark>> items in encounter order
\* (style.py:762-765)
RECURSIVE MarksOf(_)
MarksOf(items) ==
  IF items = <<>> THEN <<>>
  ELSE LET rest == MarksOf(SubSeq(items, 1, Len(items) - 1))
           it == items[Len(items)]
           old == IF it[1] \in DOMAIN rest THEN rest[it[1]] ELSE <<>>
       IN  (it[1] :> Append(old, it[2])) @@ rest

Scenario(n, sm, ss, start, owner, pm, ps) ==
  [n |-> n, marks |-> sm, special |-> ss, start |-> start, owner |-> owner,
   plane_marks |-> pm, plane_special |-> ps]

\* texts with at most two Marks of the pool
MarkupItems(n) ==
  LET one == (0..(n - 1)) \X SeqPool
  IN  {<<>>} \cup {<<a>> : a \in one} \cup {<<a, b>> : a \in one, b \in one}

MarkupScenarios ==
  {Scenario(n, MarksOf(items), {}, start, owner, <<>>, {}) :
     n \in 1..MaxLen, items \in UNION {MarkupItems(k) : k \in 1..MaxLen},
     start \in Starts, owner \in OwnerContexts}

\* crossing tags: A opens, B opens, A closes, B closes, at offsets
\* p1 <= p2 <= p3 <= p4 (an offset equal to the length is never reached)
CrossPairs ==
  {<<"color", "blue", "background", "red">>,
   <<"background", "red", "color", "blue">>,
   <<"color", "red", "direction", "DOWN">>}

CrossingScenarios ==
  {Scenario(n,
            MarksOf(<< <<p[1], Push(c[1], c[2])>>, <<p[2], Push(c[3], c[4])>>,
                       <<p[3], Pop(c[1])>>, <<p[4], Pop(c[3])>> >>),
            {}, start, owner, <<>>, {}) :
     n \in 1..MaxLen,
     p \in {q \in (0..MaxLen) \X (0..MaxLen) \X (0..MaxLen) \X (0..MaxLen) :
              q[1] <= q[2] /\ q[2] <= q[3] /\ q[3] <= q[4]},
     c \in CrossPairs, start \in Starts, owner \in OwnerContexts}

\* one Mark of each of the four kinds get_full merges, meeting at step k of
\* the pass rendered at tick k: a SpecialMark placed by position, a
\* SpecialMark placed by index, a plane Mark at (k, 0), a sequence Mark at k
KindChoices(color, target) == {<<>>, <<"push", color>>, <<"move", target>>}
KindFields(ch) ==
  IF ch[1] = "push" THEN [a |-> ("color" :> ch[2]), mt |-> <<>>]
  ELSE [a |-> NoAttr, mt |-> ch[2]]
KindMark(ch) == Mark(KindFields(ch).a, {}, KindFields(ch).mt, <<>>)
KindSpecial(fn, ch) ==
  SpecialMark(fn, KindFields(ch).a, {}, KindFields(ch).mt, <<>>)

PrecedenceScenarios ==
  {Scenario(n,
            IF c4 = <<>> THEN <<>> ELSE (k :> <<KindMark(c4)>>),
            IF c2 = <<>> THEN {} ELSE {KindSpecial("tick_mod_len", c2)},
            <<0, 0>>, ContextDefaults,
            IF c3 = <<>> THEN <<>> ELSE (<<k, 0>> :> <<KindMark(c3)>>),
            IF c1 = <<>> THEN {}
            ELSE {KindSpecial("column_tick_mod_len", c1)}) :
     n \in 2..MaxLen, k \in 0..1,
     c1 \in KindChoices("cyan", <<0, 1>>),
     c2 \in KindChoices("magenta", <<1, 1>>),
     c3 \in KindChoices("yellow", <<2, 1>>),
     c4 \in KindChoices("white", <<2, 0>>)}

\* one Mark stored on the plane at (k, 0) and one Mark of the sequence at
\* offset j, both on the color, each opening or closing
OriginScenarios ==
  {Scenario(n, (j :> <<sm>>), {}, <<0, 0>>, ContextDefaults,
            (<<k, 0>> :> <<pm>>), {}) :
     n \in 2..MaxLen, j \in 0..1, k \in 0..1,
     sm \in {Push("color", "red"), Pop("color")},
     pm \in {Push("color", "yellow"), Pop("color")}}

Scenarios ==
  {sc \in MarkupScenarios : \A o \in DOMAIN sc.marks : o < sc.n}
    \cup {sc \in CrossingScenarios : \A o \in DOMAIN sc.marks : o <= sc.n}
    \cup PrecedenceScenarios
    \cup OriginScenarios

\* planes.py:154-185 and style.py:121-130: the plane built for the owner,
\* the Marks the user stored on it, and the StyledSequence the tokenizer
\* returned for the text, not yet rendered
RECURSIVE StoreAll(_, _)
StoreAll(mm, pm) ==
  IF DOMAIN pm = {} THEN mm
  ELSE LET p == CHOOSE q \in DOMAIN pm : TRUE
       IN  StoreAll(MarkMapSet(mm, <<Abs(p[1]), Abs(p[2])>>, pm[p]),
                    [q \in DOMAIN pm \ {p} |-> pm[q]])

\* the plane, the sequence and the threads after construction
InitBase(sc, chars, lists, th) ==
  /\ text = TextOf(sc.n)
  /\ mark_sequence = [marks |-> sc.marks, special |-> sc.special]
  /\ starting_point = sc.start
  /\ owner_context = sc.owner
  /\ owner_lists = lists
  /\ size = PlaneSize
  /\ marks = [StoreAll(reset_marks(EmptyMarkMap, 0, PlaneSize[2]),
                       sc.plane_marks)
                EXCEPT !.special = sc.plane_special]
  /\ ticks = 0
  /\ writtings = <<>>
  /\ plane = NewPlaneData(PlaneSize)
  /\ canvas = <<>>
  /\ last_pos = <<>>
  /\ threads = th
  /\ sq = NewSequence(sc.start)
  /\ view = NoView
  /\ out = <<>>
  /\ pc = "idle"
  /\ idx = 0
  /\ accesses = 0
  /\ passes = 0
  /\ called = <<"none", 0>>
  /\ res = NoCall
  /\ log = <<>>
  /\ placed = {}
  /\ raw = chars

\* a program that uses no TaggedDict
InitAll(sc, chars, lists, th) ==
  /\ InitBase(sc, chars, lists, th)
  /\ tagged = NoTagged

\* one thread, the caller's
InitLists(sc, chars, lists) == InitAll(sc, chars, lists, NoThreads)

\* an owner whose context has no transformers
InitWith(sc, chars) == InitLists(sc, chars, [k \in ListAttrs |-> <<>>])

\* a StyledSequence built directly, without markup
InitOf(sc) == InitWith(sc, <<>>)

Init == \E sc \in Scenarios : InitOf(sc)

(* ------------------------------- actions ------------------------------- *)
\* planes.py:381-383
register(w) == IF \E i \in DOMAIN w : w[i] = "styled" THEN w
               ELSE Append(w, "styled")

\* style.py:285-302, StyledSequence.render, whole: _prepare_context, the
\* iteration with its writes to the plane, the exit of the context scope
\* entered by __iter__ (contexts.py:122-124) and the del of self.marks, which
\* an exception skips.  order is the iteration order of the special set.
Rendered(p, s0, r) ==
  /\ marks' = p.parent
  /\ sq' = [r.seq EXCEPT !.ctx = s0.ctx]
  /\ view' = IF r.seq.err = "none" THEN NoView ELSE p.view
  /\ out' = r.out
  /\ plane' = r.plane
  /\ canvas' = r.canvas
  /\ last_pos' = r.last_pos
  /\ placed' = placed \cup
                 {<<p.view.tick, p.view.concrete_special[i].mark.index,
                    p.view.concrete_special[i].key>> :
                    i \in DOMAIN p.view.concrete_special}

RenderFrom(p, s0) ==
  Rendered(p, s0,
           render_loop(Env(p.view), text,
                       [seq |-> s0, out |-> <<>>, plane |-> plane,
                        canvas |-> canvas, last_pos |-> last_pos], 0))

RenderSeq(tick, order) ==
  RenderFrom(prepare(marks, mark_sequence, tick, Len(text), size, order),
             enter_iteration(
               prepare_context(sq, owner_context, owner_lists)))

\* planes.py:372-384, render_styled_sequence for the sequence of Text._at
Render ==
  /\ pc = "idle"
  /\ writtings = <<>>
  /\ writtings' = register(writtings)
  /\ \E order \in Orders(marks.special \cup mark_sequence.special) :
       RenderSeq(ticks, order)
  /\ UNCHANGED <<inputs, threads, tagged, aux, ticks, pc, idx, accesses,
                 passes, called>>

\* planes.py:352-359, Text.update
Update ==
  /\ pc = "idle"
  /\ ticks < MaxTick
  /\ ticks' = ticks + 1
  /\ IF writtings = <<>>
     THEN UNCHANGED <<marks, sq, view, out, plane, canvas, last_pos, placed>>
     ELSE \E order \in Orders(marks.special \cup mark_sequence.special) :
            RenderSeq(ticks + 1, order)
  /\ UNCHANGED <<inputs, threads, tagged, aux, writtings, pc, idx, accesses,
                 passes, called>>

Next == Render \/ Update

Spec == Init /\ [][Next]_vars

(* ------------- a consumer iterating the sequence itself ---------------- *)
\* The sequence is iterated outside render ("for char, context, position in
\* sequence", style.py:96-98) after _prepare_context, and between two
\* yields the consumer may call _process_to(i) for any index.

AccessPool ==
  {Push("color", "red"), Pop("color"), Push("direction", "DOWN"),
   RMoveTo(1, 1)}

AccessItems(n) ==
  LET one == (0..(n - 1)) \X AccessPool
  IN  {<<>>} \cup {<<a>> : a \in one} \cup {<<a, b>> : a \in one, b \in one}

\* a Mark at i >= 1 whose moveto property asks the sequence for index j # i
RewindItems(n) ==
  {rw \in (1..(n - 1)) \X {Rewinder(j) : j \in 0..(n - 1)} :
     rw[2].rewind # rw[1]}

AccessOf(n) ==
  {Scenario(n, MarksOf(items), {}, <<0, 0>>, ContextDefaults, <<>>, {}) :
     items \in AccessItems(n)}

RewindOf(n) ==
  {Scenario(n, MarksOf(<<rw>> \o items), {}, <<0, 0>>, ContextDefaults,
            <<>>, {}) :
     rw \in RewindItems(n),
     items \in {<<>>} \cup {<<a>> : a \in (0..(n - 1)) \X AccessPool}}

AccessScenarios ==
  UNION {AccessOf(n) : n \in 1..MaxLen} \cup
  UNION {RewindOf(n) : n \in 2..MaxLen}

InitAccess ==
  \E sc \in AccessScenarios : InitOf(sc)

\* _prepare_context, then the start of __iter__ up to its loop
\* (style.py:252-253)
IterBegin ==
  /\ pc = "idle"
  /\ passes < MaxPass
  /\ \E order \in Orders(marks.special \cup mark_sequence.special) :
       /\ marks' = prepare(marks, mark_sequence, ticks, Len(text), size,
                           order).parent
       /\ view' = prepare(marks, mark_sequence, ticks, Len(text), size,
                          order).view
  /\ sq' = enter_iteration(prepare_context(sq, owner_context, owner_lists))
  /\ out' = <<>>
  /\ pc' = "iter"
  /\ idx' = 0
  /\ accesses' = 0
  /\ passes' = passes + 1
  /\ called' = <<"begin", 0>>
  /\ UNCHANGED <<inputs, threads, tagged, aux, placed, ticks, writtings,
                 plane, canvas, last_pos>>

\* what one turn of the generator leaves: the triple is yielded, or the
\* exception ends the generator and its context scope is left
\* (style.py:253, contexts.py:122-124)
Yielded(r) ==
  /\ sq' = IF r.seq.err = "none" THEN r.seq
           ELSE [r.seq EXCEPT !.ctx = r.seq.parent]
  /\ out' = IF r.seq.err = "none" THEN Append(out, r.yielded) ELSE out
  /\ pc' = IF r.seq.err = "none" THEN "iter" ELSE "idle"
  /\ idx' = IF r.seq.err = "none" THEN idx + 1 ELSE idx

\* style.py:254-268, the generator resumed for its next triple
IterNext ==
  /\ pc = "iter"
  /\ idx < Len(text)
  /\ Yielded(iter_step(Env(view), sq, idx))
  /\ called' = <<"next", idx>>
  /\ UNCHANGED <<inputs, threads, tagged, aux, placed, marks, ticks,
                 writtings, plane, canvas, last_pos, view, accesses, passes>>

\* style.py:269-270, the generator exhausted
IterEnd ==
  /\ pc = "iter"
  /\ idx = Len(text)
  /\ sq' = [sq EXCEPT !.ctx = sq.parent]
  /\ view' = NoView
  /\ pc' = "idle"
  /\ called' = <<"end", 0>>
  /\ UNCHANGED <<inputs, threads, tagged, aux, placed, marks, ticks,
                 writtings, plane, canvas, last_pos, out, idx, accesses,
                 passes>>

\* style.py:132-156, _process_to(i) called by the consumer between yields
Access(i) ==
  /\ pc = "iter"
  /\ idx >= 1
  /\ accesses < MaxAccess
  /\ sq' = call_process_to(Env(view), sq, i)
  /\ accesses' = accesses + 1
  /\ called' = <<"access", i>>
  /\ UNCHANGED <<inputs, threads, tagged, aux, placed, marks, ticks,
                 writtings, plane, canvas, last_pos, view, out, pc, idx,
                 passes>>

NextAccess ==
  \/ IterBegin
  \/ IterNext
  \/ IterEnd
  \/ \E i \in 0..(Len(text) - 1) : Access(i)

SpecAccess == InitAccess /\ [][NextAccess]_vars

(* ------------------ the MarkMap of a plane, item by item --------------- *)
\* User code stores, reads and deletes Marks on text_plane.marks, the plane
\* changes size, and a pass over a text prepares its copy of the map.
MaxOps == 2

\* the size the plane is built with and the one a change of padding or of
\* the owner gives it
Sizes == {PlaneSize, <<4, 3>>}

\* the four spellings of the far corner of the plane, and the far edge of
\* each axis spelled None or as a plain integer
IndexPool ==
  {<<Abs(2), Abs(1)>>, <<Abs(-1), Abs(1)>>, <<Abs(2), Abs(-1)>>,
   <<Abs(-1), Abs(-1)>>,
   <<NoneIdx, Abs(1)>>, <<Abs(3), Abs(1)>>, <<Abs(2), NoneIdx>>}

MarkPool == {Push("color", "red"), Push("color", "blue")}

InitMarks ==
  InitOf(Scenario(1, <<>>, {}, <<0, 0>>, ContextDefaults, <<>>, {}))

\* style.py:489-501, marks[index] = m
SetMark(index, m) ==
  /\ Len(log) < MaxOps
  /\ marks' = MarkMapSet(marks, index, <<m>>)
  /\ res' = [op |-> "set", index |-> index, mark |-> m]
  /\ log' = Append(log, <<"set", index, m>>)
  /\ UNCHANGED <<inputs, threads, tagged, ticks, writtings, plane, canvas,
                 last_pos, sq, view, out, pc, idx, accesses, passes, called,
                 placed, raw>>

\* style.py:525-532, del marks[index]
DelMark(index) ==
  /\ Len(log) < MaxOps
  /\ marks' = MarkMapDel(marks, index, size).map
  /\ res' = [op |-> "del", index |-> index,
             err |-> MarkMapDel(marks, index, size).err]
  /\ log' = Append(log, <<"del", index>>)
  /\ UNCHANGED <<inputs, threads, tagged, ticks, writtings, plane, canvas,
                 last_pos, sq, view, out, pc, idx, accesses, passes, called,
                 placed, raw>>

\* style.py:503-522, marks[index]
GetMark(index) ==
  /\ res' = [op |-> "get", index |-> index,
             err |-> MarkMapGet(marks, index, size).err,
             value |-> MarkMapGet(marks, index, size).value]
  /\ UNCHANGED <<inputs, threads, tagged, marks, ticks, writtings, plane,
                 canvas, last_pos, sq, view, out, pc, idx, accesses, passes,
                 called, log, placed, raw>>

\* style.py:534-547, len(marks) and list(marks)
CountMarks ==
  /\ res' = [op |-> "len", value |-> MarkMapLen(marks),
             keys |-> MarkMapIter(marks)]
  /\ UNCHANGED <<inputs, threads, tagged, marks, ticks, writtings, plane,
                 canvas, last_pos, sq, view, out, pc, idx, accesses, passes,
                 called, log, placed, raw>>

\* planes.py:129-145 and 180-184: the size follows the owner and the
\* padding, and the CharPlaneData takes its bounds from it (planes.py:33-35)
Resize ==
  /\ Len(log) < MaxOps
  /\ \E s \in Sizes \ {size} :
       /\ size' = s
       /\ plane' = [plane EXCEPT !.width = s[1], !.height = s[2]]
       /\ log' = Append(log, <<"resize", s>>)
  /\ res' = [op |-> "resize"]
  /\ UNCHANGED <<text, mark_sequence, starting_point, owner_context,
                 owner_lists, threads, tagged, marks, ticks, writtings,
                 canvas, last_pos, sq, view, out, pc, idx, accesses, passes,
                 called, placed, raw>>

\* style.py:233-237 and 440-455: a pass over the text begins and prepares
\* its copy of the Marks
PrepareView ==
  /\ \E order \in Orders(marks.special \cup mark_sequence.special) :
       /\ marks' = prepare(marks, mark_sequence, ticks, Len(text), size,
                           order).parent
       /\ view' = prepare(marks, mark_sequence, ticks, Len(text), size,
                          order).view
  /\ res' = [op |-> "prepare"]
  /\ UNCHANGED <<inputs, threads, tagged, ticks, writtings, plane, canvas,
                 last_pos, sq, out, pc, idx, accesses, passes, called, log,
                 placed, raw>>

NextMarks ==
  \/ \E index \in IndexPool, m \in MarkPool : SetMark(index, m)
  \/ \E index \in IndexPool : DelMark(index)
  \/ \E index \in IndexPool : GetMark(index)
  \/ CountMarks
  \/ Resize
  \/ PrepareView

SpecMarks == InitMarks /\ [][NextMarks]_vars

(* ----------------------- a tokenizer fed piece by piece ---------------- *)
\* MLTokenizer.update appends to raw_text and parse() is called at any point
\* (style.py:637-667).  log keeps the pieces raw_text was built from.
MaxPieces == 4

Tag(chars) == <<"[">> \o chars \o <<"]">>
OpenTransformer == Tag(Spell.transformer \o <<":", "t">>)
CloseTransformer == Tag(<<"/">> \o Spell.transformer)

\* a piece is one plain character or one tag
PlainPieces == {<<"a">>, <<"b">>}
TagPieces ==
  {Tag(Spell.color \o <<":", " ">> \o Spell.red), Tag(<<"/">> \o Spell.color),
   Tag(Spell.up), OpenTransformer, CloseTransformer}
PiecePool == PlainPieces \cup TagPieces

InitParse ==
  InitOf(Scenario(0, <<>>, {}, <<0, 0>>, ContextDefaults, <<>>, {}))

\* style.py:647-649, MLTokenizer.update
TokUpdate(piece) ==
  /\ Len(log) < MaxPieces
  /\ raw' = raw \o piece
  /\ log' = Append(log, piece)
  /\ res' = [op |-> "update"]
  /\ UNCHANGED <<inputs, threads, tagged, marks, ticks, writtings, plane,
                 canvas, last_pos, sq, view, out, pc, idx, accesses, passes,
                 called, placed>>

\* style.py:651-667, MLTokenizer.parse
Parse ==
  /\ text' = parse(raw).parsed_text
  /\ mark_sequence' = [marks |-> parse(raw).mark_sequence, special |-> {}]
  /\ res' = [op |-> "parse", err |-> parse(raw).err]
  /\ UNCHANGED <<starting_point, owner_context, owner_lists, threads, tagged,
                 size, marks, ticks, writtings, plane, canvas, last_pos, sq,
                 view, out, pc, idx, accesses, passes, called, log, placed,
                 raw>>

NextParse ==
  \/ \E piece \in PiecePool : TokUpdate(piece)
  \/ Parse

SpecParse == InitParse /\ [][NextParse]_vars

(* --------------- a tokenizer fed with coordinate tags ------------------ *)
\* The raw text is built from plain characters, a color tag, a coordinate
\* tag and tags with a comma that are no pair of integers: a part that is no
\* number, an empty part, three parts.
MalformedTags ==
  {Tag(<<"1", ",", " ", "x">>), Tag(<<",", " ", "1">>),
   Tag(<<"1", ",", "2", ",", "3">>)}
CoordPieces ==
  {<<"a">>, Tag(Spell.color \o <<":", " ">> \o Spell.red),
   Tag(<<"1", ",", " ", "1">>)} \cup MalformedTags

NextCoord ==
  \/ \E piece \in CoordPieces : TokUpdate(piece)
  \/ Parse

SpecCoord == InitParse /\ [][NextCoord]_vars

(* ------------------- text with markup written on a plane -------------- *)
\* text_plane[pos] = raw (planes.py:212-265): the raw text is tokenized and
\* the StyledSequence rendered, and update() renders it again.

\* one coordinate of a tag [x, y] as written, with the number it spells
Unsigned(n) == [chars |-> <<DigitChar[n + 1]>>, signed |-> FALSE, n |-> n]
Plus(n) == [chars |-> <<"+", DigitChar[n + 1]>>, signed |-> TRUE, n |-> n]
Minus(n) == [chars |-> <<"-", DigitChar[n + 1]>>, signed |-> TRUE, n |-> 0 - n]
XForms == {Unsigned(2), Unsigned(0), Plus(1), Minus(1)}
YForms == {Unsigned(1), Plus(1), Minus(1)}

\* T0[x, y]T1
CoordForms ==
  {[n0 |-> n0, x |-> x, y |-> y,
    raw |-> SubSeq(Chars, 1, n0) \o Tag(x.chars \o <<",", " ">> \o y.chars)
              \o SubSeq(Chars, n0 + 1, n0 + n1)] :
     n0 \in 0..(MaxLen - 1), n1 \in 1..2, x \in XForms, y \in YForms}

\* T0[name: v]T1[/name]T2
AliasNames == {"color", "foreground", "effects", "effect"}
AliasValues(name) ==
  IF name \in {"color", "foreground"} THEN {"red", "blue"}
  ELSE {"blink", "bold"}
AliasRaw(name, v, n0, n1, n2) ==
  SubSeq(Chars, 1, n0) \o Tag(Spell[name] \o <<":", " ">> \o Spell[v])
    \o SubSeq(Chars, n0 + 1, n0 + n1) \o Tag(<<"/">> \o Spell[name])
    \o SubSeq(Chars, n0 + n1 + 1, n0 + n1 + n2)
AliasOf(name) ==
  {[name |-> name, v |-> v, n0 |-> n0, n1 |-> n1, n2 |-> n2,
    raw |-> AliasRaw(name, v, n0, n1, n2)] :
     v \in AliasValues(name), n0 \in 0..1, n1 \in 1..(MaxLen - 1),
     n2 \in 1..2}
AliasForms == UNION {AliasOf(name) : name \in AliasNames}

\* P0[tag]P1 for a tag whose name is no attribute, no direction and no
\* coordinate pair, with the text P0 P1 it is written into
UnknownTags ==
  {Tag(<<"x">>), Tag(<<"x", ":", " ">> \o Spell.red), Tag(<<"/", "x">>)}
Prefixes ==
  {<<>>, <<"a">>, Tag(Spell.color \o <<":", " ">> \o Spell.red),
   Tag(Spell.color \o <<":", " ">> \o Spell.red) \o <<"a">>
     \o Tag(<<"0", ",", " ", "1">>)}
Suffixes ==
  {<<"b">>, Tag(<<"/">> \o Spell.color) \o <<"b">>,
   Tag(Spell.down) \o <<"b", "c">>}
TagIn(tags) ==
  {[tag |-> t, p0 |-> p0, p1 |-> p1, raw |-> p0 \o t \o p1,
    base |-> p0 \o p1] : t \in tags, p0 \in Prefixes, p1 \in Suffixes}
UnknownForms == TagIn(UnknownTags)

\* P0[/name]P1 for an attribute that no tag of P0 opened
ClosingNames ==
  {"color", "background", "effects", "direction", "font", "char",
   "transformer"}
UnmatchedOf(name) ==
  {f \in TagIn({Tag(<<"/">> \o Spell[name])}) :
     name = "color" => f.p0 \in {<<>>, <<"a">>}}
UnmatchedForms == UNION {UnmatchedOf(name) : name \in ClosingNames}

MarkupRaws ==
  {f.raw : f \in CoordForms \cup AliasForms \cup UnknownForms
                   \cup UnmatchedForms}

InitMarkup ==
  \E chars \in MarkupRaws, start \in Starts, owner \in OwnerContexts :
    InitWith(Scenario(0, <<>>, {}, start, owner, <<>>, {}), chars)

\* style.py:767-776 and 285-300: the pass of a new StyledSequence over a
\* parsed text
render_text(txt, ms, tick, order) ==
  render_loop(
    [n |-> Len(txt), start |-> starting_point,
     view |-> prepare(marks, ms, tick, Len(txt), size, order).view,
     size |-> size],
    txt,
    [seq |-> enter_iteration(
               prepare_context(NewSequence(starting_point), owner_context,
                               owner_lists)),
     out |-> <<>>, plane |-> plane, canvas |-> canvas,
     last_pos |-> last_pos],
    0)

\* planes.py:260-265, Text._at(starting_point, raw): an exception of the
\* tokenizer leaves the plane as it was
At ==
  /\ pc = "idle"
  /\ writtings = <<>>
  /\ res' = [op |-> "at", err |-> parse(raw).err,
             before |-> [plane |-> plane, canvas |-> canvas,
                         last_pos |-> last_pos]]
  /\ IF parse(raw).err # "none"
     THEN UNCHANGED <<text, mark_sequence, writtings, marks, sq, view, out,
                      plane, canvas, last_pos, placed>>
     ELSE /\ text' = parse(raw).parsed_text
          /\ mark_sequence' = [marks |-> parse(raw).mark_sequence,
                               special |-> {}]
          /\ writtings' = register(writtings)
          /\ \E order \in Orders(marks.special) :
               Rendered(
                 prepare(marks,
                         [marks |-> parse(raw).mark_sequence, special |-> {}],
                         ticks, Len(parse(raw).parsed_text), size, order),
                 enter_iteration(
                   prepare_context(NewSequence(starting_point),
                                   owner_context, owner_lists)),
                 render_text(parse(raw).parsed_text,
                             [marks |-> parse(raw).mark_sequence,
                              special |-> {}],
                             ticks, order))
  /\ UNCHANGED <<starting_point, owner_context, owner_lists, threads, tagged,
                 size, ticks, pc, idx, accesses, passes, called, log, raw>>

NextMarkup == At \/ Update

SpecMarkup == InitMarkup /\ [][NextMarkup]_vars

(* ------------------- texts that run over the edges --------------------- *)
PlanePositions ==
  {<<0, 0>>, <<2, 1>>, <<-1, 0>>, <<3, 0>>, <<0, 2>>, <<1, -1>>}

OverflowRaws ==
  {Tag(Spell.left) \o <<"a", "b", "c">>,
   Tag(Spell.up) \o <<"a", "b">>,
   Tag(Spell.down) \o <<"a", "b", "c">>,
   <<"a">> \o Tag(<<"0", ",", " ", "5">>) \o <<"b">>
     \o Tag(<<"0", ",", " ", "1">>) \o <<"c">>,
   Tag(<<"5", ",", " ", "0">>) \o <<"a", "b">>,
   Tag(<<"-", "1", ",", " ", "+", "0">>) \o <<"a", "b">>,
   <<"a", "b", "c", "d", "e", "f", "g">>,
   <<"a", "b">>}

InitPlane ==
  \E chars \in OverflowRaws, start \in Starts \cup {<<0, 5>>},
     owner \in OwnerContexts :
    InitWith(Scenario(0, <<>>, {}, start, owner, <<>>, {}), chars)

\* planes.py:38-41, text.plane[pos]
PlaneGet(pos) ==
  /\ pc = "idle"
  /\ res' = [op |-> "plane_get", pos |-> pos,
             err |-> plane_getitem(plane, pos).err,
             value |-> plane_getitem(plane, pos).value, before |-> plane]
  /\ UNCHANGED <<inputs, threads, tagged, marks, ticks, writtings, plane,
                 canvas, last_pos, sq, view, out, pc, idx, accesses, passes,
                 called, log, placed, raw>>

\* planes.py:43-46, text.plane[pos] = char
PlaneSet(pos, char) ==
  /\ pc = "idle"
  /\ res' = [op |-> "plane_set", pos |-> pos,
             err |-> plane_setitem(plane, pos, char).err, before |-> plane]
  /\ plane' = plane_setitem(plane, pos, char).data
  /\ UNCHANGED <<inputs, threads, tagged, marks, ticks, writtings, canvas,
                 last_pos, sq, view, out, pc, idx, accesses, passes, called,
                 log, placed, raw>>

NextPlane ==
  \/ At
  \/ \E pos \in PlanePositions : PlaneGet(pos)
  \/ \E pos \in PlanePositions : PlaneSet(pos, "x")

SpecPlane == InitPlane /\ [][NextPlane]_vars

\* cell writes and renders on a plane whose size changes in between
NextResize ==
  \/ NextPlane
  \/ Resize

SpecResize == InitPlane /\ [][NextResize]_vars

(* ------------------------------- threads ------------------------------- *)
\* Two threads and two owners, each owner with its Text plane.  threads is
\*   pc      where each thread is in StyledSequence.render
\*   target  the owner each thread renders to
\*   lock    the thread that holds Text._render_lock ("free": none)
\*   locals  owner.context._locals of each owner, by thread: the names set
\*           (has), their values (val) and the scopes entered (stack)
\*   grid, last, canv   of each owner: Text.plane, planes[...]["last_pos"]
\*           and the owner's cells
\*   seq, k, pos   of each thread: its StyledSequence, the index of the next
\*           character and the position of the character being written
Threads == {"t1", "t2"}
Owners == {"A", "B"}
ThreadText == [t1 |-> <<"a", "b">>, t2 |-> <<"c", "d">>]

\* the values each thread gives to the attributes of a context
OwnValues ==
  [t1 |-> [color |-> {"red", "green"}], t2 |-> [direction |-> {"DOWN"}]]

MaxScopes == 1

\* contexts.py:82-88 and 104-108: the ContextVars, and the other names
\* Text gives to a context
CtxNames == ContextAttrs \cup {"last_pos", "context"}
CtxDefaults ==
  [a \in CtxNames |->
     IF a \in ContextAttrs THEN ContextDefaults[a]
     ELSE IF a = "last_pos" THEN <<>> ELSE "none"]

\* contexts.py:91, self._locals = threading.local(): nothing set
NoLocals == [has |-> {}, val |-> CtxDefaults, stack |-> <<>>]

\* contexts.py:35-44, ContextVar.__get__: the value, and the locals after
\* the read, which keeps the default it gave
ctx_read(l, a) == IF a \in l.has THEN l.val[a] ELSE CtxDefaults[a]
ctx_got(l, a) == [l EXCEPT !.has = @ \cup {a}, !.val[a] = ctx_read(l, a)]

\* a set that every thread sees
ctx_set_shared(ls, t, a, v) ==
  [u \in DOMAIN ls |-> [ls[u] EXCEPT !.has = @ \cup {a}, !.val[a] = v]]

\* contexts.py:28-33 and 100-105, ContextVar.__set__ and
\* Context.__setattr__ called by thread t: ls is _locals by thread
ctx_set(ls, t, a, v) ==
  [ls EXCEPT ![t].has = @ \cup {a}, ![t].val[a] = v]

\* contexts.py:115-120, __enter__ without new parameters
ctx_enter(l) ==
  [l EXCEPT !.stack = Append(@, [has |-> l.has, val |-> l.val])]

\* contexts.py:122-124, __exit__: what the scope found set is written back
ctx_exit(l) ==
  [l EXCEPT
     !.stack = SubSeq(@, 1, Len(@) - 1),
     !.val = [a \in CtxNames |->
                IF a \in l.stack[Len(l.stack)].has
                THEN l.stack[Len(l.stack)].val[a] ELSE @[a]]]

\* contexts.py:132-143, Context.__iter__ in one thread: every ContextVar is
\* read
RECURSIVE ctx_read_all(_, _)
ctx_read_all(l, names) ==
  IF names = {} THEN l
  ELSE LET a == CHOOSE x \in names : TRUE
       IN  ctx_read_all(ctx_got(l, a), names \ {a})

\* style.py:281-282: the attributes of the owner's context as the thread
\* finds them
parent_data(l) == [a \in ContextAttrs |-> ctx_read(l, a)]

\* the plane of an owner nothing was written to
ThreadEnv(t) ==
  [n |-> Len(ThreadText[t]), start |-> <<0, 0>>,
   view |-> prepare(reset_marks(EmptyMarkMap, 0, PlaneSize[2]),
                    [marks |-> <<>>, special |-> {}], 0,
                    Len(ThreadText[t]), PlaneSize, <<>>).view,
   size |-> PlaneSize]

InitThreads ==
  InitAll(Scenario(0, <<>>, {}, <<0, 0>>, ContextDefaults, <<>>, {}), <<>>,
          [k \in ListAttrs |-> <<>>],
          [pc |-> [t \in Threads |-> "idle"],
           target |-> [t \in Threads |-> "A"],
           lock |-> "free",
           locals |-> [o \in Owners |-> [t \in Threads |-> NoLocals]],
           grid |-> [o \in Owners |-> NewPlaneData(PlaneSize)],
           last |-> [o \in Owners |-> <<>>],
           canv |-> [o \in Owners |-> <<>>],
           seq |-> [t \in Threads |-> NewSequence(<<0, 0>>)],
           k |-> [t \in Threads |-> 0],
           pos |-> [t \in Threads |-> <<0, 0>>]])

\* a lock that lets every thread in
acquirable_always(th, t) == TRUE

\* planes.py:101 and 369: Text._render_lock, one lock for the class
acquirable(th, t) == th.lock = "free"

\* style.py:279-283, _prepare_context in thread t for the plane of owner o
TPrepare(t, o) ==
  /\ threads.pc[t] = "idle"
  /\ threads' =
       [threads EXCEPT
          !.pc[t] = "prepared",
          !.target[t] = o,
          !.locals[o][t] = ctx_read_all(@, ContextAttrs),
          !.seq[t] = prepare_context(NewSequence(<<0, 0>>),
                                     parent_data(threads.locals[o][t]),
                                     [k \in ListAttrs |-> <<>>])]
  /\ UNCHANGED <<sequential, tagged>>

\* style.py:291-293 and planes.py:369 up to the lock: the scope of the
\* owner's context is entered with the context of the sequence
TEnter(t) ==
  /\ threads.pc[t] = "prepared"
  /\ threads' =
       [threads EXCEPT
          !.pc[t] = "entered",
          !.locals[threads.target[t]] =
             ctx_set([@ EXCEPT ![t] = ctx_enter(@)], t, "context", t)]
  /\ UNCHANGED <<sequential, tagged>>

\* planes.py:369-370 and style.py:252-253: the lock is taken, the function
\* that writes is handed out and the iteration begins
TAcquire(t) ==
  /\ threads.pc[t] = "entered"
  /\ acquirable(threads, t)
  /\ threads' = [threads EXCEPT !.pc[t] = "next", !.lock = t, !.k[t] = 0,
                                !.seq[t] = enter_iteration(@)]
  /\ UNCHANGED <<sequential, tagged>>

\* the turn of the loop of thread t on the state th
thread_turn(th, t) == iter_step(ThreadEnv(t), th.seq[t], th.k[t])
thread_write(th, t) ==
  plane_setitem(th.grid[th.target[t]], thread_turn(th, t).yielded.position,
                ThreadText[t][th.k[t] + 1])

\* style.py:295-296 and planes.py:268-271: the next character is yielded and
\* its cell is written; a position out of range ends the call
TNext(t) ==
  /\ threads.pc[t] = "next"
  /\ threads.k[t] < Len(ThreadText[t])
  /\ threads' =
       [threads EXCEPT
          !.seq[t] = thread_turn(threads, t).seq,
          !.pos[t] = thread_turn(threads, t).yielded.position,
          !.grid[threads.target[t]] = thread_write(threads, t).data,
          !.pc[t] = IF thread_write(threads, t).err = "IndexError"
                    THEN "next" ELSE "keep",
          !.k[t] = IF thread_write(threads, t).err = "IndexError"
                   THEN @ + 1 ELSE @]
  /\ UNCHANGED <<sequential, tagged>>

\* planes.py:272-273
TKeep(t) ==
  /\ threads.pc[t] = "keep"
  /\ threads' =
       [threads EXCEPT
          !.pc[t] = "blit",
          !.locals[threads.target[t]] =
             ctx_set(@, t, "last_pos", threads.pos[t]),
          !.last[threads.target[t]] = threads.pos[t]]
  /\ UNCHANGED <<sequential, tagged>>

\* planes.py:274, the blit that ends _char_at
TBlit(t) ==
  /\ threads.pc[t] = "blit"
  /\ threads' =
       [threads EXCEPT
          !.pc[t] = "next",
          !.k[t] = @ + 1,
          !.canv[threads.target[t]] =
             blit(@, threads.grid[threads.target[t]], threads.pos[t])]
  /\ UNCHANGED <<sequential, tagged>>

\* style.py:301-302 and planes.py:369: after the last character the lock is
\* released and the scope of the owner's context is left
TRelease(t) ==
  /\ threads.pc[t] = "next"
  /\ threads.k[t] = Len(ThreadText[t])
  /\ threads' =
       [threads EXCEPT
          !.pc[t] = "done",
          !.lock = "free",
          !.locals[threads.target[t]][t] = ctx_exit(@)]
  /\ UNCHANGED <<sequential, tagged>>

NextThreads ==
  \E t \in Threads :
    \/ \E o \in Owners : TPrepare(t, o)
    \/ TEnter(t)
    \/ TAcquire(t)
    \/ TNext(t)
    \/ TKeep(t)
    \/ TBlit(t)
    \/ TRelease(t)

SpecThreads == InitThreads /\ [][NextThreads]_vars

\* style.py:294-302 and planes.py:369: an exception raised while thread t
\* processes the Marks of a character or writes it (other than the
\* IndexError _char_at catches) leaves the loop; the finally clause resumes
\* the generator, which releases the lock and leaves the scope of the
\* owner's context, and the exception reaches the caller of render
TRaise(t) ==
  /\ \/ threads.pc[t] = "next" /\ threads.k[t] < Len(ThreadText[t])
     \/ threads.pc[t] \in {"keep", "blit"}
  /\ threads' =
       [threads EXCEPT
          !.pc[t] = "raised",
          !.lock = "free",
          !.locals[threads.target[t]][t] = ctx_exit(@)]
  /\ UNCHANGED <<sequential, tagged>>

NextRender ==
  \/ NextThreads
  \/ \E t \in Threads : TRaise(t)

SpecRender == InitThreads /\ [][NextRender]_vars

\* contexts.py:28-33, context.<a> = v in thread t, on the context of owner A
CtxSet(t, a, v) ==
  /\ threads.pc[t] = "idle"
  /\ threads' = [threads EXCEPT !.locals["A"] = ctx_set(@, t, a, v)]
  /\ UNCHANGED <<sequential, tagged>>

\* contexts.py:35-44, context.<a> read in thread t
CtxGet(t, a) ==
  /\ threads.pc[t] = "idle"
  /\ threads' = [threads EXCEPT !.locals["A"][t] = ctx_got(@, a)]
  /\ UNCHANGED <<sequential, tagged>>

\* contexts.py:115-120, with context: in thread t
CtxEnter(t) ==
  /\ threads.pc[t] = "idle"
  /\ Len(threads.locals["A"][t].stack) < MaxScopes
  /\ threads' = [threads EXCEPT !.locals["A"][t] = ctx_enter(@)]
  /\ UNCHANGED <<sequential, tagged>>

\* contexts.py:122-124, the end of the with block
CtxExit(t) ==
  /\ threads.pc[t] = "idle"
  /\ threads.locals["A"][t].stack # <<>>
  /\ threads' = [threads EXCEPT !.locals["A"][t] = ctx_exit(@)]
  /\ UNCHANGED <<sequential, tagged>>

NextContext ==
  \E t \in Threads :
    \/ \E a \in DOMAIN OwnValues[t] :
         \E v \in OwnValues[t][a] : CtxSet(t, a, v)
    \/ \E a \in DOMAIN OwnValues[t] : CtxGet(t, a)
    \/ CtxEnter(t)
    \/ CtxExit(t)
    \/ TPrepare(t, "A")

SpecContext == InitThreads /\ [][NextContext]_vars

(* --------------- two threads rendering one StyledSequence -------------- *)
\* Both threads call render_styled_sequence(styled) for the same styled on
\* the plane of owner A.  sq is that StyledSequence and writtings the list
\* of the plane; of threads, pc, lock, locals, grid and k are used, k being
\* the index the generator of each thread is at.
SharedText == ThreadText["t1"]
SharedEnv == ThreadEnv("t1")

\* what a render by two threads leaves alone
unshared ==
  <<inputs, aux, marks, ticks, plane, canvas, last_pos, view, out, pc, idx,
    accesses, passes, called, placed, tagged>>

\* planes.py:381, the test "not styled in self.writtings_index", in a
\* thread that is not rendering
SCheck(t) ==
  /\ threads.pc[t] \in {"idle", "done"}
  /\ threads' = [threads EXCEPT
                   !.pc[t] = IF "styled" \in Range(writtings)
                             THEN "registered" ELSE "adding"]
  /\ UNCHANGED <<unshared, sq, writtings>>

\* planes.py:382-383, the sequence is added to the index and to the list
SAdd(t) ==
  /\ threads.pc[t] = "adding"
  /\ writtings' = Append(writtings, "styled")
  /\ threads' = [threads EXCEPT !.pc[t] = "registered"]
  /\ UNCHANGED <<unshared, sq>>

\* style.py:289 and 279-283, render up to _prepare_context: the sequence
\* gets a new Context filled from the owner's
SPrepare(t) ==
  /\ threads.pc[t] = "registered"
  /\ sq' = prepare_context(sq, parent_data(threads.locals["A"][t]),
                           [k \in ListAttrs |-> <<>>])
  /\ threads' = [threads EXCEPT
                   !.pc[t] = "prepared",
                   !.locals["A"][t] = ctx_read_all(@, ContextAttrs)]
  /\ UNCHANGED <<unshared, writtings>>

\* style.py:290-294, planes.py:369 and style.py:252-253: the scope of the
\* owner's context is entered, the lock is taken and the iteration begins
SAcquire(t) ==
  /\ threads.pc[t] = "prepared"
  /\ acquirable(threads, t)
  /\ sq' = enter_iteration(sq)
  /\ threads' = [threads EXCEPT
                   !.pc[t] = "next", !.lock = t, !.k[t] = 0,
                   !.locals["A"] =
                      ctx_set([@ EXCEPT ![t] = ctx_enter(@)], t, "context",
                              t)]
  /\ UNCHANGED <<unshared, writtings>>

\* style.py:294-295 and planes.py:267-275: a character is yielded and
\* written
SNext(t) ==
  /\ threads.pc[t] = "next"
  /\ threads.k[t] < Len(SharedText)
  /\ LET r == iter_step(SharedEnv, sq, threads.k[t])
         w == plane_setitem(threads.grid["A"], r.yielded.position,
                            SharedText[threads.k[t] + 1])
     IN /\ sq' = r.seq
        /\ threads' = [threads EXCEPT !.k[t] = @ + 1, !.grid["A"] = w.data]
  /\ UNCHANGED <<unshared, writtings>>

\* style.py:301-302: the lock is released and the scope is left
SRelease(t) ==
  /\ threads.pc[t] = "next"
  /\ threads.k[t] = Len(SharedText)
  /\ threads' = [threads EXCEPT
                   !.pc[t] = "done", !.lock = "free",
                   !.locals["A"][t] = ctx_exit(@)]
  /\ UNCHANGED <<unshared, sq, writtings>>

NextShared ==
  \E t \in Threads :
    \/ SCheck(t)
    \/ SAdd(t)
    \/ SPrepare(t)
    \/ SAcquire(t)
    \/ SNext(t)
    \/ SRelease(t)

SpecShared == InitThreads /\ [][NextShared]_vars

(* ------------------------------ TaggedDict ----------------------------- *)
\* utils/collections.py:112-221.  A key of data is the frozenset of the tags
\* of the entry; _keys maps a tag to the keys that carry it.  A view shares
\* data, _keys, _lock and _counter with its parent (lines 146-154) and
\* differs in _filtering_keys alone, so a call through a view is the call
\* with the view's _filtering_keys.  tagged holds
\*   data, _keys, _counter   of the parent mapping
\*   pc, key, view, value    of each thread: "add" between the two statements
\*                           of add(), then the key it formatted, the
\*                           _filtering_keys it works through and the value
\*   added     history: the adds that returned, [thread, key, stored, new]
\*   last      the last call that finished and the mapping before it
\* The body of a "with self._lock" block is one step: every writer takes the
\* lock, and the statements outside it are steps of their own.
MaxCounter == 2
TagPool == {<<"a">>, <<"b">>}
TagValues == {1, 2}
Views == {{}, {<<"a">>}}

NoCallYet ==
  [op |-> "none", err |-> "none", view |-> {}, keys |-> {},
   before |-> [data |-> <<>>, _keys |-> <<>>]]

\* collections.py:137-144, TaggedDict.__init__ without initial contents
NewTaggedDict ==
  [data |-> <<>>, _keys |-> <<>>, _counter |-> 0,
   pc |-> [t \in Threads |-> "idle"],
   key |-> [t \in Threads |-> <<>>],
   view |-> [t \in Threads |-> {}],
   value |-> [t \in Threads |-> 0],
   added |-> <<>>,
   last |-> NoCallYet]

\* collections.py:156-159; a str is one tag, given here as a set of one
_get_local_keys(filtering, keys) == filtering \cup keys

\* f"_id_{n}", collections.py:219
IdKey(n) == <<"_", "i", "d", "_">> \o str_of(n)

\* the mapping f with key k bound to v
Bound(f, k, v) == [x \in DOMAIN f \cup {k} |-> IF x = k THEN v ELSE f[x]]

\* the mapping f without the keys in ks
Without(f, ks) == [x \in DOMAIN f \ ks |-> f[x]]

\* collections.py:161-168, the body of __setitem__
setitem(d, filtering, keys, value) ==
  LET local == _get_local_keys(filtering, keys)
  IN [d EXCEPT
        !.data = Bound(@, local, value),
        !._keys = [k \in DOMAIN @ \cup local |->
                     IF k \in local
                       THEN (IF k \in DOMAIN @ THEN @[k] ELSE {}) \cup {local}
                       ELSE @[k]],
        !._counter = @ + 1]

\* collections.py:170-189, [err, keys]
_get_resolved_keys(d, filtering, keys) ==
  LET local == _get_local_keys(filtering, keys)
      keysets == {d._keys[k] : k \in local \cap DOMAIN d._keys}
      unknown == {k \in local : k \notin DOMAIN d._keys /\ k \notin filtering}
  IN IF local = {} THEN [err |-> "none", keys |-> DOMAIN d.data]
     ELSE IF unknown # {} THEN [err |-> "KeyError", keys |-> {}]
     ELSE [err |-> "none",
           keys |-> {x \in UNION keysets : \A s \in keysets : x \in s}]

\* collections.py:191-195, [err, values]
getitem(d, filtering, keys) ==
  LET r == _get_resolved_keys(d, filtering, keys)
  IN IF r.err # "none" THEN [err |-> r.err, values |-> {}]
     ELSE IF \E k \in r.keys : k \notin DOMAIN d.data
       THEN [err |-> "KeyError", values |-> {}]
     ELSE IF r.keys = {} THEN [err |-> "KeyError", values |-> {}]
     ELSE [err |-> "none", values |-> {d.data[k] : k \in r.keys}]

\* collections.py:200-206, the loop over the tags in the order the frozenset
\* gives them: [err, _keys]
RECURSIVE unindex(_, _)
unindex(ks, order) ==
  IF order = <<>> THEN [err |-> "none", _keys |-> ks]
  ELSE LET outter_key == Head(order)
       IN IF outter_key \notin DOMAIN ks
            THEN [err |-> "KeyError", _keys |-> ks]
            ELSE LET to_remove ==
                       {inner_key \in ks[outter_key] : outter_key \in inner_key}
                     left == ks[outter_key] \ to_remove
                 IN unindex(IF left = {} THEN Without(ks, {outter_key})
                                         ELSE [ks EXCEPT ![outter_key] = left],
                            Tail(order))

\* collections.py:197-209, the body of __delitem__: [err, d]
delitem(d, filtering, keys, order) ==
  LET u == unindex(d._keys, order)
      d1 == [d EXCEPT !._keys = u._keys]
      r == _get_resolved_keys(d1, filtering, {})
  IN IF u.err # "none" THEN [err |-> u.err, d |-> d1]
     ELSE IF r.err # "none" THEN [err |-> r.err, d |-> d1]
     ELSE IF \E k \in r.keys : k \notin DOMAIN d.data
       THEN [err |-> "KeyError", d |-> d1]
     ELSE [err |-> "none", d |-> [d1 EXCEPT !.data = Without(@, r.keys)]]

Called(d, op, err, filtering, keys) ==
  [op |-> op, err |-> err, view |-> filtering, keys |-> keys,
   before |-> [data |-> d.data, _keys |-> d._keys]]

InitTagged ==
  /\ InitBase(Scenario(0, <<>>, {}, <<0, 0>>, ContextDefaults, <<>>, {}),
              <<>>, [k \in ListAttrs |-> <<>>], NoThreads)
  /\ tagged = NewTaggedDict

\* collections.py:161-168, view[keys] = value in thread t
TagSet(t, filtering, keys, value) ==
  /\ tagged.pc[t] = "idle"
  /\ tagged._counter < MaxCounter
  /\ tagged' = [setitem(tagged, filtering, keys, value)
                  EXCEPT !.last = Called(tagged, "set", "none", filtering,
                                         keys)]
  /\ UNCHANGED <<sequential, threads>>

\* collections.py:219, add(value) in thread t, up to the key it formats
TagAddKey(t, filtering, value) ==
  /\ tagged.pc[t] = "idle"
  /\ tagged._counter < MaxCounter
  /\ tagged' = [tagged EXCEPT !.pc[t] = "add",
                              !.key[t] = IdKey(tagged._counter),
                              !.view[t] = filtering,
                              !.value[t] = value]
  /\ UNCHANGED <<sequential, threads>>

\* collections.py:220-221, the rest of add(): self[key] = value; return key
TagAddStore(t) ==
  /\ tagged.pc[t] = "add"
  /\ LET keys == {tagged.key[t]}
         local == _get_local_keys(tagged.view[t], keys)
     IN tagged' = [setitem(tagged, tagged.view[t], keys, tagged.value[t])
                     EXCEPT !.pc[t] = "idle",
                            !.added = Append(@, [thread |-> t,
                                                 key |-> tagged.key[t],
                                                 stored |-> local,
                                                 new |-> local \notin
                                                         DOMAIN tagged.data]),
                            !.last = Called(tagged, "add", "none",
                                            tagged.view[t], keys)]
  /\ UNCHANGED <<sequential, threads>>

\* collections.py:197-209, del view[keys] in thread t
TagDel(t, filtering, keys) ==
  /\ tagged.pc[t] = "idle"
  /\ \E order \in Orders(_get_local_keys(filtering, keys)) :
       LET r == delitem(tagged, filtering, keys, order)
       IN tagged' = [r.d EXCEPT !.last = Called(tagged, "del", r.err,
                                                 filtering, keys)]
  /\ UNCHANGED <<sequential, threads>>

\* collections.py:191-195, view[keys] in thread t
TagGet(t, filtering, keys) ==
  /\ tagged.pc[t] = "idle"
  /\ tagged' = [tagged EXCEPT !.last = Called(tagged, "get",
                                              getitem(tagged, filtering,
                                                      keys).err,
                                              filtering, keys)]
  /\ UNCHANGED <<sequential, threads>>

NextTagged ==
  \E t \in Threads, filtering \in Views :
    \/ \E keys \in SUBSET TagPool \ {{}}, value \in TagValues :
         TagSet(t, filtering, keys, value)
    \/ \E value \in TagValues : TagAddKey(t, filtering, value)
    \/ TagAddStore(t)
    \/ \E keys \in SUBSET TagPool \ {{}} : TagDel(t, filtering, keys)
    \/ \E keys \in SUBSET TagPool \ {{}} : TagGet(t, filtering, keys)

SpecTagged == InitTagged /\ [][NextTagged]_vars

(* --------------------- several texts on one plane ---------------------- *)
\* In this specification writtings holds the StyledSequences themselves, as
\* [text, mark_sequence, start], and log the renders: the place of the
\* sequence in writtings, the tick its marks were prepared for, the call
\* that rendered it and the exception it raised.
MaxWritings == 2

ReplayRaws ==
  {<<"a">>, <<"a", "b">>,
   Tag(<<"1", ",", " ", "0">>) \o <<"b">>,
   Tag(<<"0", ",", " ", "5">>) \o <<"c">>,
   Tag(Spell.transformer \o <<":", " ", "t", " ", "x">>) \o <<"d">>,
   Tag(Spell.left) \o <<"e", "f">>}
ReplayStarts == {<<0, 0>>, <<2, 1>>, <<0, 5>>}

InitReplay == InitWith(Scenario(0, <<>>, {}, <<0, 0>>, ContextDefaults,
                                <<>>, {}), <<>>)

\* style.py:285-300: one pass of the sequence w over the plane st left by
\* the renders before it, with the marks prepared for tick
render_writing(st, w, tick) ==
  render_loop(
    [n |-> Len(w.text), start |-> w.start,
     view |-> prepare(marks, w.mark_sequence, tick, Len(w.text), size,
                      <<>>).view,
     size |-> size],
    w.text,
    [seq |-> enter_iteration(
               prepare_context(NewSequence(w.start), owner_context,
                               owner_lists)),
     out |-> <<>>, plane |-> st.plane, canvas |-> st.canvas,
     last_pos |-> st.last_pos],
    0)

\* the render of the k-th writing recorded
rendered_writing(st, r, k, tick, call) ==
  [plane |-> r.plane, canvas |-> r.canvas, last_pos |-> r.last_pos,
   seq |-> r.seq, out |-> r.out, now |-> k,
   log |-> Append(st.log, [k |-> k, tick |-> tick, call |-> call,
                           err |-> r.seq.err])]

\* planes.py:356-359, the loop of update() from the k-th writing on: an
\* exception of a render ends it
RECURSIVE update_loop(_, _, _, _)
update_loop(st, ws, k, tick) ==
  IF k > Len(ws) \/ st.seq.err # "none" THEN st
  ELSE update_loop(
         rendered_writing(st, render_writing(st, ws[k], tick), k, tick,
                          "update"),
         ws, k + 1, tick)

\* the plane as a render finds it
PlaneNow ==
  [plane |-> plane, canvas |-> canvas, last_pos |-> last_pos,
   seq |-> [sq EXCEPT !.err = "none"], out |-> out, now |-> 0, log |-> log]

\* what a call leaves of the last sequence rendered
Shown(st, ws) ==
  /\ plane' = st.plane
  /\ canvas' = st.canvas
  /\ last_pos' = st.last_pos
  /\ sq' = st.seq
  /\ out' = st.out
  /\ log' = st.log
  /\ IF st.now = 0 THEN UNCHANGED <<text, mark_sequence, starting_point>>
     ELSE /\ text' = ws[st.now].text
          /\ mark_sequence' = ws[st.now].mark_sequence
          /\ starting_point' = ws[st.now].start

\* the sequence the tokenizer builds for a text written at start
WritingOf(chars, start) ==
  [text |-> parse(chars).parsed_text,
   mark_sequence |-> [marks |-> parse(chars).mark_sequence, special |-> {}],
   start |-> start]

\* what Text._at returns: planes.py:264-265
at_result(lp) == IF lp = <<>> THEN <<0, 0>> ELSE lp

\* planes.py:229-265 and 372-384, Text.at(start, chars): the sequence is
\* added to writtings before it is rendered
AtText(chars, start) ==
  /\ Len(writtings) < MaxWritings
  /\ raw' = chars
  /\ IF parse(chars).err # "none"
     THEN /\ res' = [op |-> "at", err |-> parse(chars).err, start |-> start,
                     before |-> last_pos]
          /\ UNCHANGED <<text, mark_sequence, starting_point, writtings, sq,
                         out, plane, canvas, last_pos, log>>
     ELSE /\ writtings' = Append(writtings, WritingOf(chars, start))
          /\ Shown(rendered_writing(
                     PlaneNow,
                     render_writing(PlaneNow, WritingOf(chars, start), ticks),
                     Len(writtings) + 1, ticks, "at"),
                   Append(writtings, WritingOf(chars, start)))
          /\ res' = [op |-> "at",
                     err |-> render_writing(PlaneNow,
                                            WritingOf(chars, start),
                                            ticks).seq.err,
                     start |-> start, before |-> last_pos,
                     value |-> at_result(
                                 render_writing(PlaneNow,
                                                WritingOf(chars, start),
                                                ticks).last_pos)]
  /\ UNCHANGED <<owner_context, owner_lists, threads, tagged, size, marks,
                 ticks, view, pc, idx, accesses, passes, called, placed>>

\* planes.py:352-359, Text.update
UpdateAll ==
  /\ ticks < MaxTick
  /\ ticks' = ticks + 1
  /\ Shown(update_loop(PlaneNow, writtings, 1, ticks + 1), writtings)
  /\ res' = [op |-> "update",
             err |-> update_loop(PlaneNow, writtings, 1, ticks + 1).seq.err,
             before |-> ticks, logged |-> Len(log)]
  /\ UNCHANGED <<owner_context, owner_lists, threads, tagged, size, marks,
                 writtings, view, pc, idx, accesses, passes, called, placed,
                 raw>>

NextReplay ==
  \/ \E chars \in ReplayRaws, start \in ReplayStarts : AtText(chars, start)
  \/ UpdateAll

SpecReplay == InitReplay /\ [][NextReplay]_vars

(* ------------------- markup that pushes transformers ------------------- *)
\* a transformer the owner's context already holds
ParentTransformer ==
  [name |-> <<"p">>, id |-> 0, sequence_len |-> 0,
   sequence_absolute_start |-> 0]
OwnerLists ==
  {[transformers |-> <<>>, pretransformers |-> <<>>],
   [transformers |-> <<ParentTransformer>>,
    pretransformers |-> <<ParentTransformer>>]}

Opening(value) == Tag(Spell.transformer \o <<":", " ">> \o value)
TransformerRaws ==
  {Opening(<<"t">>) \o <<"a", "b">>,
   <<"a">> \o Opening(<<"t">>) \o <<"b", "c">>,
   Opening(<<"t", " ", "1">>) \o <<"a", "b", "c">>,
   <<"a">> \o Opening(<<"t", " ", "2">>) \o <<"b", "c", "d">>,
   Opening(<<"t", " ", "0">>) \o <<"a", "b">>,
   Opening(<<"t", " ", "5">>) \o <<"a", "b">>,
   Opening(<<"t">>) \o <<"a", "b">> \o CloseTransformer \o <<"c">>,
   <<"a">> \o Opening(<<"t">>) \o <<"b">> \o CloseTransformer \o <<"c">>,
   Opening(<<"t", " ", "3">>) \o <<"a">> \o CloseTransformer
     \o <<"b", "c">>,
   Opening(<<"t", " ", "1">>) \o <<"a", "b">> \o CloseTransformer
     \o <<"c">>,
   Opening(<<"t">>) \o <<"a">> \o Opening(<<"u">>) \o <<"b">>
     \o CloseTransformer \o <<"c">> \o CloseTransformer \o <<"d">>,
   Opening(<<"t", " ", "1">>) \o Opening(<<"u", " ", "2">>)
     \o <<"a", "b", "c">>,
   Opening(<<"t">>) \o <<"a">> \o Opening(<<"t", " ", "1">>)
     \o <<"b", "c">>}

InitTransformers ==
  \E chars \in TransformerRaws, start \in Starts, owner \in OwnerContexts,
     lists \in OwnerLists :
    InitLists(Scenario(0, <<>>, {}, start, owner, <<>>, {}), chars, lists)

SpecTransformers == InitTransformers /\ [][NextMarkup]_vars

(* ------------------------------ properties ----------------------------- *)
\* The copy of the Marks a pass over the current inputs works on
PassView ==
  prepare(marks, mark_sequence, ticks, Len(text), size,
          CHOOSE o \in Orders(marks.special \cup mark_sequence.special) : TRUE
         ).view

\* the cursor on entry to the step that yielded out[k]
Before(k) ==
  IF k = 1 THEN starting_point
  ELSE V2Add(out[k - 1].position, DirVec(out[k - 1].context.direction))

\* the Marks met by the step that yielded out[k]
FiredAt(k) == get_full(PassView, out[k].index, Before(k), size)

PlainPlane == marks.data = <<>> /\ marks.special = {}
Complete == writtings # <<>> /\ Len(out) = Len(text) /\ sq.err = "none"

\* texts of the form T1[color:v]T2[/color]T3, the tags at offsets p <= q
PushPopForms ==
  {[p |-> p, q |-> q, v |-> v,
    marks |-> MarksOf(<< <<p, Push("color", v)>>, <<q, Pop("color")>> >>)] :
     p \in 0..(MaxLen - 1), q \in 0..(MaxLen - 1), v \in {"red", "blue"}}

\* C1: in a text T1[color:v]T2[/color]T3 rendered on a plane without Marks
\* on the color, every character of T1 and of T3 is yielded with the color
\* in effect at the start of the text and every character of T2 with v.
C1_PushPopSymmetry ==
  \A f \in PushPopForms :
    (/\ f.p <= f.q
     /\ mark_sequence = [marks |-> f.marks, special |-> {}]
     /\ PlainPlane)
    => \A k \in DOMAIN out :
         out[k].context.color =
           IF f.p <= out[k].index /\ out[k].index < f.q THEN f.v
           ELSE owner_context.color

\* "a" in the start color, "b" in red, "c" in the start color again
C1_Witness ==
  /\ mark_sequence.marks =
       MarksOf(<< <<1, Push("color", "red")>>, <<2, Pop("color")>> >>)
  /\ PlainPlane
  /\ Complete
  /\ Len(out) = 3
  /\ out[1].context.color = owner_context.color
  /\ out[2].context.color = "red"
  /\ out[3].context.color = owner_context.color

\* crossing tags [A:v] [B:w] [/A] [/B] at offsets p1 <= p2 <= p3 <= p4
CrossingForms ==
  {[p |-> p, c |-> c,
    marks |-> MarksOf(<< <<p[1], Push(c[1], c[2])>>, <<p[2], Push(c[3], c[4])>>,
                         <<p[3], Pop(c[1])>>, <<p[4], Pop(c[3])>> >>)] :
     p \in {q \in (0..MaxLen) \X (0..MaxLen) \X (0..MaxLen) \X (0..MaxLen) :
              q[1] <= q[2] /\ q[2] <= q[3] /\ q[3] <= q[4]},
     c \in CrossPairs}

\* what crossing tags must leave in attribute a for the character at index i
CrossExpected(f, a, i) ==
  IF a = f.c[1] /\ f.p[1] <= i /\ i < f.p[3] THEN f.c[2]
  ELSE IF a = f.c[3] /\ f.p[2] <= i /\ i < f.p[4] THEN f.c[4]
  ELSE owner_context[a]

\* a plane Mark at (k, 0) and a sequence Mark at offset j, both on the color
OriginForms ==
  {[j |-> j, k |-> k, sm |-> sm, pm |-> pm] :
     j \in 0..1, k \in 0..1,
     sm \in {Push("color", "red"), Pop("color")},
     pm \in {Push("color", "yellow"), Pop("color")}}

\* the color no pop of the other origin has touched
OriginExpected(f, i) ==
  LET plane_in == f.pm.attributes # NoAttr /\ f.k <= i
      seq_in == f.sm.attributes # NoAttr /\ f.j <= i
  IN  IF plane_in /\ seq_in THEN (IF f.k <= f.j THEN "red" ELSE "yellow")
      ELSE IF plane_in THEN "yellow"
      ELSE IF seq_in THEN "red"
      ELSE owner_context.color

\* C2: with crossing tags [A:v] [B:w] [/A] [/B] no error is raised, A is
\* back at its start value from [/A] on while B keeps w until [/B]; and a
\* closing Mark removes only an entry of its own origin: a closing Mark of
\* the sequence leaves the value a plane Mark pushed, and the reverse.
C2_IndependentPops ==
  /\ \A f \in CrossingForms :
       (/\ mark_sequence = [marks |-> f.marks, special |-> {}]
        /\ PlainPlane
        /\ writtings # <<>>)
       => /\ Complete
          /\ \A k \in DOMAIN out : \A a \in Attrs :
               out[k].context[a] = CrossExpected(f, a, out[k].index)
  /\ \A f \in OriginForms :
       (/\ mark_sequence = [marks |-> (f.j :> <<f.sm>>), special |-> {}]
        /\ marks.data = (<<f.k, 0>> :> <<f.pm>>)
        /\ marks.special = {}
        /\ writtings # <<>>)
       => /\ Complete
          /\ \A k \in DOMAIN out :
               out[k].context.color = OriginExpected(f, out[k].index)

\* "[color:blue]a[background:red]b[/color]c[/background]"
C2_Witness ==
  /\ mark_sequence.marks =
       MarksOf(<< <<0, Push("color", "blue")>>,
                  <<1, Push("background", "red")>>,
                  <<2, Pop("color")>>, <<3, Pop("background")>> >>)
  /\ Complete
  /\ Len(out) = 3
  /\ out[2].context.color = "blue" /\ out[2].context.background = "red"
  /\ out[3].context.color = owner_context.color
  /\ out[3].context.background = "red"

\* on a plane that pushes yellow at (0, 0), a text closing the color at its
\* offset 1 is yielded in yellow to its end
C2_OriginCase ==
  /\ mark_sequence.marks = (1 :> <<Pop("color")>>)
  /\ marks.data = (<<0, 0>> :> <<Push("color", "yellow")>>)
  /\ Complete
  /\ Len(out) = 3
  /\ out[3].context.color = "yellow"

\* C7: when no Mark is met at a character, its position is the position of
\* the character before it plus the direction in effect at that character;
\* with the direction RIGHT and no Mark met up to it, character k of a text
\* started at (x0, y0) is at (x0 + k, y0).
C7_DirectionFlow ==
  /\ \A k \in DOMAIN out :
       (k > 1 /\ FiredAt(k) = <<>>)
       => out[k].position =
            V2Add(out[k - 1].position, DirVec(out[k - 1].context.direction))
  /\ owner_context.direction = "RIGHT"
     => \A k \in DOMAIN out :
          (\A j \in 1..k :
             get_full(PassView, j - 1,
                      <<starting_point[1] + j - 1, starting_point[2]>>,
                      size) = <<>>)
          => out[k].position =
               <<starting_point[1] + k - 1, starting_point[2]>>

\* "a[direction:DOWN]bc" from (0, 0): "c" is one cell below "b"
C7_Witness ==
  /\ mark_sequence.marks = (1 :> <<Push("direction", "DOWN")>>)
  /\ PlainPlane
  /\ starting_point = <<0, 0>>
  /\ owner_context.direction = "RIGHT"
  /\ Complete
  /\ Len(out) = 3
  /\ FiredAt(3) = <<>>
  /\ out[2].position = <<1, 0>>
  /\ out[3].position = <<1, 1>>

\* C8: a moveto with the retain sentinel on one axis puts the cursor at the
\* given value on the other axis and leaves the retained axis at the value
\* the cursor had on entry to the step (the Mark's rmoveto, if it has one,
\* is then added), whatever the cursor position and the axis.
C8_RetainAxis ==
  \A k \in DOMAIN out :
    (/\ Len(FiredAt(k)) = 1
     /\ FiredAt(k)[1][1].moveto # <<>>
     /\ \E a \in 1..2 : FiredAt(k)[1][1].moveto[a] = RETAIN_POS)
    => \A a \in 1..2 :
         out[k].position[a] =
           (IF FiredAt(k)[1][1].moveto[a] = RETAIN_POS THEN Before(k)[a]
            ELSE FiredAt(k)[1][1].moveto[a])
           + (IF FiredAt(k)[1][1].rmoveto = <<>> THEN 0
              ELSE FiredAt(k)[1][1].rmoveto[a])

\* "ab" going down from (2, 0) with a moveto (retain, 1) at "b", which is
\* placed at (2, 1): entered at (2, 1), column kept, row set
C8_Witness ==
  /\ mark_sequence.marks = (1 :> <<MoveTo(RETAIN_POS, 1)>>)
  /\ PlainPlane
  /\ starting_point = <<2, 0>>
  /\ owner_context.direction = "DOWN"
  /\ Complete
  /\ Len(out) >= 2
  /\ Len(FiredAt(2)) = 1
  /\ Before(2) = <<2, 1>>
  /\ out[2].position = <<2, 1>>

\* the wrap at the right edge: "abc" from (2, 0) meets the plane's Mark
\* moveto (0, retain), rmoveto (0, 1) at (3, 0) and "b" goes to (0, 1)
C8_WrapCase ==
  /\ mark_sequence.marks = <<>>
  /\ PlainPlane
  /\ starting_point = <<2, 0>>
  /\ owner_context.direction = "RIGHT"
  /\ Complete
  /\ Len(out) >= 2
  /\ Len(FiredAt(2)) = 1
  /\ Before(2) = <<3, 0>>
  /\ out[2].position = <<0, 1>>

\* the four kinds of Mark meeting at step k, chosen as in PrecedenceScenarios
PrecedenceForms ==
  {[k |-> k, chs |-> <<c1, c2, c3, c4>>,
    seq_marks |-> IF c4 = <<>> THEN <<>> ELSE (k :> <<KindMark(c4)>>),
    seq_special |-> IF c2 = <<>> THEN {}
                    ELSE {KindSpecial("tick_mod_len", c2)},
    plane_data |-> IF c3 = <<>> THEN <<>> ELSE (<<k, 0>> :> <<KindMark(c3)>>),
    plane_special |-> IF c1 = <<>> THEN {}
                      ELSE {KindSpecial("column_tick_mod_len", c1)}] :
     k \in 0..1,
     c1 \in KindChoices("cyan", <<0, 1>>),
     c2 \in KindChoices("magenta", <<1, 1>>),
     c3 \in KindChoices("yellow", <<2, 1>>),
     c4 \in KindChoices("white", <<2, 0>>)}

\* the value of the last of the four choices that is of this kind
LastOf(chs, kind, default) ==
  IF \E i \in 1..4 : chs[i] # <<>> /\ chs[i][1] = kind
  THEN chs[Max({i \in 1..4 : chs[i] # <<>> /\ chs[i][1] = kind})][2]
  ELSE default

\* C9: the Marks met at one step are applied in the order: special Marks
\* at the position, special Marks at the index, plane Marks at the
\* position, Marks of the sequence at the index; each one later in this
\* order overrides the earlier ones, so a Mark of the sequence wins over a
\* plane Mark on the same attribute or on the cursor.  (Texts going right
\* from (0, 0): the cursor enters step k at (k, 0).)
C9_MarkOrder ==
  \A f \in PrecedenceForms :
    (/\ mark_sequence = [marks |-> f.seq_marks, special |-> f.seq_special]
     /\ marks.data = f.plane_data
     /\ marks.special = f.plane_special
     /\ starting_point = <<0, 0>>
     /\ owner_context.direction = "RIGHT"
     /\ writtings # <<>>
     /\ ticks % Len(text) = f.k)
    => /\ Complete
       /\ out[f.k + 1].context.color = LastOf(f.chs, "push", owner_context.color)
       /\ out[f.k + 1].position = LastOf(f.chs, "move", <<f.k, 0>>)

\* at step 1 of the pass at tick 1 the plane pushes yellow and moves to
\* (2, 1) and the sequence pushes white, two special Marks being met too:
\* the character is white, at the place the plane Mark moved to
C9_Witness ==
  /\ mark_sequence.marks = (1 :> <<KindMark(<<"push", "white">>)>>)
  /\ mark_sequence.special = {KindSpecial("tick_mod_len", <<"move", <<1, 1>> >>)}
  /\ marks.data = (<<1, 0>> :> <<KindMark(<<"push", "yellow">>)>>)
  /\ marks.special = {KindSpecial("column_tick_mod_len", <<"push", "cyan">>)}
  /\ ticks = 1
  /\ Complete
  /\ Len(FiredAt(2)) = 4
  /\ out[2].context.color = "white"
  /\ out[2].position = <<1, 1>>

C14_AnyTwoTicks ==
  Len(text) > 1
    => \A a, b \in placed :
         (a[2] = b[2] /\ a[1] # b[1]) => a[3] # b[3]

\* C14: over the passes rendered so far, a SpecialMark whose index function
\* is tick % len, for a text of more than one character, was placed at
\* different positions by any two passes made at ticks that differ modulo the
\* length of the text.
C14_TicksApartModLen ==
  Len(text) > 1
    => \A a, b \in placed :
         (a[2] = b[2] /\ a[1] % Len(text) # b[1] % Len(text)) => a[3] # b[3]

\* the passes at ticks 0 and 1 over a text of two characters placed the
\* SpecialMark of the sequence at index 0 and at index 1
C14_Witness ==
  /\ Len(text) = 2
  /\ ticks = 1
  /\ Complete
  /\ <<0, "tick_mod_len", <<"i", 0, 0>> >> \in placed
  /\ <<1, "tick_mod_len", <<"i", 1, 0>> >> \in placed

(* ------------------ properties of the plane's MarkMap ------------------ *)
\* The place an index names on a plane of a size: an integer counts from the
\* near edge, a negative one and a RelativeMarkIndex from the far edge of
\* their own axis, and None is the far edge itself.
AxisPos(c, sz, axis) ==
  IF c[1] = "N" THEN sz[axis]
  ELSE IF c[1] = "W" THEN sz[1] + c[2]
  ELSE IF c[1] = "H" THEN sz[2] + c[2]
  ELSE IF c[2] < 0 THEN sz[axis] + c[2] ELSE c[2]

PositionOf(index, sz) == <<AxisPos(index[1], sz, 1), AxisPos(index[2], sz, 2)>>

\* the Marks the map holds under any key naming the place pos
StoredAt(mm, pos, sz) ==
  (IF pos \in DOMAIN mm.data THEN Range(mm.data[pos]) ELSE {})
    \cup UNION {Range(mm.relative_data[i].val) :
                  i \in {j \in DOMAIN mm.relative_data :
                           PositionOf(mm.relative_data[j].key, sz) = pos}}

\* the size of the plane when the i-th logged call was made
SizeAt(i) ==
  LET rs == {j \in 1..(i - 1) : log[j][1] = "resize"}
  IN  IF rs = {} THEN PlaneSize ELSE log[Max(rs)][2]

\* the logged calls that stored a Mark under an edge-relative index which
\* the map still holds there
RelativeSets ==
  {i \in DOMAIN log :
     /\ log[i][1] = "set"
     /\ index_is_relative(log[i][2])
     /\ log[i][3] \in
          Range(RelGet(marks.relative_data,
                       normalize_relative_index(log[i][2]).index))}

\* C11: when a Mark was stored under an edge-relative index, the plane then
\* changed size and a pass prepared its copy of the map after that, the copy
\* holds the Mark at the place the index names for the new size, and not at
\* the place it named when it was stored (unless the map holds the Mark for
\* that place too).
C11_RelativeFollowsSize ==
  (res.op = "prepare" /\ log # <<>> /\ log[Len(log)][1] = "resize")
    => \A i \in RelativeSets :
         /\ log[i][3] \in
              Range(ViewGet(view, PositionOf(log[i][2], size), size))
         /\ log[i][3] \notin StoredAt(marks, PositionOf(log[i][2], SizeAt(i)),
                                      size)
              => log[i][3] \notin
                   Range(ViewGet(view, PositionOf(log[i][2], SizeAt(i)),
                                 size))

\* red was stored at (-1, 1) of the 3x2 plane, the plane grew to 4x3, and the
\* copy prepared then holds red at (3, 1) and nothing at (2, 1)
C11_Witness ==
  /\ log = << <<"set", <<Abs(-1), Abs(1)>>, Push("color", "red")>>,
              <<"resize", <<4, 3>> >> >>
  /\ res.op = "prepare"
  /\ view.present
  /\ view.data[<<3, 1>>] = <<Push("color", "red")>>
  /\ <<2, 1>> \notin DOMAIN view.data

\* C12: a read through an index returns every Mark the map holds under any
\* spelling of the place the index names (None on either axis being the far
\* edge of that axis), and so does not fail when there is one.
C12_ReadsMergeSpellings ==
  res.op = "get"
    => /\ StoredAt(marks, PositionOf(res.index, size), size)
            \subseteq Range(res.value)
       /\ StoredAt(marks, PositionOf(res.index, size), size) # {}
            => res.err = "none"

\* the places for which the map holds Marks
StoredPlaces(mm, sz) ==
  DOMAIN mm.data
    \cup {PositionOf(mm.relative_data[i].key, sz) : i \in DOMAIN mm.relative_data}

SamePlace(index, sz) ==
  {s \in IndexPool : PositionOf(s, sz) = PositionOf(index, sz)}

\* C13: a deletion through an index removes the Marks held under every
\* spelling of the place it names, after which a read through any spelling
\* raises KeyError; a deletion for a place that holds nothing raises KeyError
\* and leaves the map as it was; counting or iterating the map reports each
\* place once, however many spellings it is stored under.
C13_OneLogicalEntry ==
  [][/\ res'.op = "del"
          => IF StoredAt(marks, PositionOf(res'.index, size), size) # {}
             THEN /\ res'.err = "none"
                  /\ StoredAt(marks', PositionOf(res'.index, size), size) = {}
                  /\ \A s \in SamePlace(res'.index, size) :
                       MarkMapGet(marks', s, size).err = "KeyError"
             ELSE /\ res'.err = "KeyError"
                  /\ marks' = marks
     /\ res'.op = "len"
          => /\ res'.value = Cardinality(StoredPlaces(marks, size))
             /\ Cardinality(res'.keys) = Cardinality(StoredPlaces(marks, size))
    ]_vars

\* what a read through an index gives, nothing when it raises KeyError
ReadOf(mm, index, sz) == MarkMapGet(mm, index, sz).value

\* C15: storing a Mark through an index whose place already holds other
\* Marks keeps them: a read through that index then gives the Marks it gave
\* before, followed by the new one.
C15_SlotKeepsBoth ==
  [][(/\ res'.op = "set"
      /\ ReadOf(marks, res'.index, size) # <<>>
      /\ res'.mark \notin Range(ReadOf(marks, res'.index, size)))
       => ReadOf(marks', res'.index, size)
            = Append(ReadOf(marks, res'.index, size), res'.mark)
    ]_vars

(* --------------------- properties of the tokenizer --------------------- *)
\* the tags among the pieces of the raw text, and the number of plain
\* characters that precede the i-th piece
TagsIn == {i \in DOMAIN log : log[i] \in TagPieces}
PlainBefore(i) == Cardinality({j \in 1..(i - 1) : log[j] \in PlainPieces})

\* the tags that stand at a plain-text offset, in the order they are met
RECURSIVE Ascending(_)
Ascending(S) ==
  IF S = {} THEN <<>> ELSE <<Min(S)>> \o Ascending(S \ {Min(S)})
TagsAt(o) == Ascending({i \in TagsIn : PlainBefore(i) = o})

\* the closing tag of the transformer opened by the i-th piece (0: none):
\* the first closing tag after it with as many openings as closings between
Balanced(i, j) ==
  Cardinality({k \in (i + 1)..(j - 1) : log[k] = OpenTransformer})
    = Cardinality({k \in (i + 1)..(j - 1) : log[k] = CloseTransformer})
ClosingOf(i) ==
  LET cs == {j \in (i + 1)..Len(log) :
               log[j] = CloseTransformer /\ Balanced(i, j)}
  IN  IF cs = {} THEN 0 ELSE Min(cs)

\* what the Mark of the i-th piece, a tag, has to be
TransformerValue(i) ==
  IF ClosingOf(i) = 0 THEN <<"t">>
  ELSE <<"t", " ", DigitChar[PlainBefore(ClosingOf(i)) - PlainBefore(i) + 1]>>
MarkOfTag(i) ==
  IF log[i] = OpenTransformer THEN Push("pretransformer", TransformerValue(i))
  ELSE IF log[i] = CloseTransformer THEN Pop("pretransformer")
  ELSE IF log[i] = Tag(Spell.up) THEN Push("direction", "UP")
  ELSE IF log[i] = Tag(<<"/">> \o Spell.color) THEN Pop("color")
  ELSE Push("color", "red")

Parsed == res.op = "parse" /\ res.err = "none"

\* C16: after parse(), the mark sequence holds at every offset one Mark per
\* tag standing at that offset, in the order of the tags, and the span that a
\* closing transformer tag gives is written on the Mark of the opening tag it
\* closes and on no other Mark.
C16_TagsCompose ==
  Parsed
    => \A o \in 0..Len(log) :
         IF TagsAt(o) = <<>> THEN o \notin DOMAIN mark_sequence.marks
         ELSE /\ o \in DOMAIN mark_sequence.marks
              /\ mark_sequence.marks[o]
                   = [k \in DOMAIN TagsAt(o) |-> MarkOfTag(TagsAt(o)[k])]

\* "[color: red][transformer:t]a[/transformer]": two Marks at offset 0, the
\* second one annotated with the span 1, and the closing Mark at offset 1
C16_Witness ==
  /\ log = <<Tag(Spell.color \o <<":", " ">> \o Spell.red), OpenTransformer,
             <<"a">>, CloseTransformer>>
  /\ Parsed
  /\ mark_sequence.marks =
       (0 :> <<Push("color", "red"),
               Push("pretransformer", <<"t", " ", "1">>)>>)
         @@ (1 :> <<Pop("pretransformer")>>)

\* the plain characters of the raw text, in order
RECURSIVE PlainOf(_)
PlainOf(pieces) ==
  IF pieces = <<>> THEN <<>>
  ELSE (IF Head(pieces) \in PlainPieces THEN Head(pieces) ELSE <<>>)
         \o PlainOf(Tail(pieces))

\* C17: parse() leaves in parsed_text the raw text without its tags, and,
\* when it raises nothing, the offsets of the mark sequence are the numbers
\* of plain characters that precede the tags; for a raw text without tags
\* the parsed text is the raw text and the mark sequence is empty.
C17_ParseOutput ==
  res.op = "parse"
    => /\ text = PlainOf(log)
       /\ res.err = "none"
            => DOMAIN mark_sequence.marks = {PlainBefore(i) : i \in TagsIn}
       /\ TagsIn = {}
            => text = raw /\ mark_sequence.marks = <<>> /\ res.err = "none"

\* "a[up]b[/color]" parses to "ab" with Marks at the offsets 1 and 2
C17_Witness ==
  /\ log = << <<"a">>, Tag(Spell.up), <<"b">>, Tag(<<"/">> \o Spell.color)>>
  /\ Parsed
  /\ text = <<"a", "b">>
  /\ DOMAIN mark_sequence.marks = {1, 2}

\* a text without tags was parsed
C17_PlainCase ==
  /\ log = << <<"a">>, <<"b">> >>
  /\ Parsed
  /\ text = <<"a", "b">>
  /\ mark_sequence.marks = <<>>

(* -------------------- properties of malformed tags --------------------- *)
\* the Marks, with their offsets, of the tags that stand before the first
\* malformed tag; n counts the plain characters passed
RECURSIVE GoodItems(_, _)
GoodItems(pieces, n) ==
  IF pieces = <<>> \/ Head(pieces) \in MalformedTags THEN <<>>
  ELSE IF Head(pieces) = <<"a">> THEN GoodItems(Tail(pieces), n + 1)
  ELSE << <<n, IF Head(pieces) = Tag(<<"1", ",", " ", "1">>) THEN MoveTo(1, 1)
               ELSE Push("color", "red")>> >>
         \o GoodItems(Tail(pieces), n)

\* C23: parse() of a raw text holding a tag with a comma that is no pair of
\* integers raises, and the mark sequence it leaves holds the Marks of the
\* tags before that tag and nothing else: no Mark of the malformed tag and
\* none of a later tag.
C23_MalformedCoordinateFatal ==
  (res.op = "parse" /\ \E i \in DOMAIN log : log[i] \in MalformedTags)
    => /\ res.err = "ValueError"
       /\ mark_sequence.marks = MarksOf(GoodItems(log, 0))

\* "[color: red]a[1, x][1, 1]": only the Mark of the color tag is left
C23_Witness ==
  /\ log = <<Tag(Spell.color \o <<":", " ">> \o Spell.red), <<"a">>,
             Tag(<<"1", ",", " ", "x">>), Tag(<<"1", ",", " ", "1">>)>>
  /\ res.op = "parse"
  /\ res.err = "ValueError"
  /\ mark_sequence.marks = (0 :> <<Push("color", "red")>>)

(* ------------------ properties of text with markup --------------------- *)
\* where a coordinate as written takes an axis of the cursor standing at cur
AxisTo(c, cur) == IF c.signed THEN cur + c.n ELSE c.n

\* C18: in a text T0[x, y]T1 the character after the tag is placed, on each
\* axis, at the number written when it is unsigned and at the cursor's value
\* on that axis plus the number when it is signed, whatever the form of the
\* other axis (the tag being the only Mark met at that step).
C18_CoordinateTags ==
  \A f \in CoordForms :
    (raw = f.raw /\ Complete /\ Len(FiredAt(f.n0 + 1)) = 1)
      => out[f.n0 + 1].position =
           <<AxisTo(f.x, Before(f.n0 + 1)[1]),
             AxisTo(f.y, Before(f.n0 + 1)[2])>>

\* "a[+1, 1]b" written downwards from (0, 0): the cursor is at (0, 1) when
\* the tag is met, x moves by one and y is set: "b" is placed at (1, 1)
C18_Witness ==
  /\ raw = <<"a">> \o Tag(<<"+", "1", ",", " ", "1">>) \o <<"b">>
  /\ starting_point = <<0, 0>>
  /\ owner_context.direction = "DOWN"
  /\ Complete
  /\ Before(2) = <<0, 1>>
  /\ Len(FiredAt(2)) = 1
  /\ out[2].position = <<1, 1>>

\* "a[2, 1]b": both numbers unsigned, "b" is placed at (2, 1)
C18_AbsoluteCase ==
  /\ raw = <<"a">> \o Tag(<<"2", ",", " ", "1">>) \o <<"b">>
  /\ starting_point = <<0, 0>>
  /\ Complete
  /\ Len(FiredAt(2)) = 1
  /\ out[2].position = <<2, 1>>

\* the triples a new StyledSequence yields for a raw text on the plane as
\* it stands, at the current tick
OutOf(chars) ==
  render_text(parse(chars).parsed_text,
              [marks |-> parse(chars).mark_sequence, special |-> {}],
              ticks, <<>>).out

\* C21: a text with a tag of an unknown name is written without an error
\* of the tokenizer or of the pass, and every character is yielded with the
\* attributes and at the position it has in the same text without the tag.
C21_UnknownTagIgnored ==
  \A f \in UnknownForms :
    (raw = f.raw /\ res.op = "at")
      => /\ res.err = "none"
         /\ Complete
         /\ out = OutOf(f.base)

\* "[color: red][x: red][down]bc": "b" and "c" are red and written downwards
C21_Witness ==
  /\ raw = Tag(Spell.color \o <<":", " ">> \o Spell.red)
             \o Tag(<<"x", ":", " ">> \o Spell.red)
             \o Tag(Spell.down) \o <<"b", "c">>
  /\ res.op = "at"
  /\ res.err = "none"
  /\ Len(out) = 2
  /\ out[1].context.color = "red"
  /\ out[2].position = V2Add(starting_point, <<0, 1>>)

\* C22: a text with a closing tag of an attribute that was not opened is
\* written without an error of the tokenizer or of the pass, and every
\* character is yielded with the attributes and at the position it has in
\* the same text without the tag.
C22_UnmatchedCloseSilent ==
  \A f \in UnmatchedForms :
    (raw = f.raw /\ res.op = "at")
      => /\ res.err = "none"
         /\ Complete
         /\ out = OutOf(f.base)

\* C19: a text T0[foreground: v]T1[/foreground]T2 is yielded with the same
\* color, character by character, as T0[color: v]T1[/color]T2.
C19_ForegroundIsColor ==
  \A f \in AliasOf("foreground") :
    (raw = f.raw /\ Complete)
      => \A k \in DOMAIN out :
           out[k].context.color =
             OutOf(AliasRaw("color", f.v, f.n0, f.n1, f.n2))[k].context.color

\* C20: a text T0[effect: v]T1[/effect]T2 is yielded with the same effects,
\* character by character, as T0[effects: v]T1[/effects]T2: T1 with v and T2
\* with the effects in force before the opening tag.
C20_EffectIsEffects ==
  \A f \in AliasOf("effect") :
    (raw = f.raw /\ Complete)
      => \A k \in DOMAIN out :
           out[k].context.effects =
             OutOf(AliasRaw("effects", f.v, f.n0, f.n1, f.n2))[k]
               .context.effects

(* --------------- properties of calls made by a consumer ---------------- *)
\* the sequence as __iter__ leaves it before its first step
FreshSequence ==
  enter_iteration(
    prepare_context(NewSequence(starting_point), owner_context, owner_lists))

\* a replay to index i on stacks holding their initial entries only
FreshReplay(i) ==
  reprocess_from_start(Env(view), [FreshSequence EXCEPT !.last = i], i, 0)

\* the sequence after the iteration yielded its first k triples
RECURSIVE SequentialAfter(_)
SequentialAfter(k) ==
  IF k = 0 THEN FreshSequence
  ELSE iter_step(Env(view), SequentialAfter(k - 1), k - 1).seq

\* the sequence as the iteration has it when it yields index i, before the
\* advance for that character
SequentialAt(i) == call_process_to(Env(view), SequentialAfter(i), i)

\* the consumer's call _process_to(index) just returned after a replay
Replayed ==
  /\ pc = "iter"
  /\ called[1] = "access"
  /\ sq.replayed
  /\ sq.err = "none"

\* C3: a non-sequential _process_to(i) resets the attribute stacks and the
\* cursor and replays the Marks 0..i: afterwards every stack holds its
\* initial entry and the values pushed and not popped by those Marks,
\* nothing left over from the processing done before.
C3_ReplayResets ==
  Replayed => sq.cm = FreshReplay(sq.last).cm

\* C4: the attributes and the cursor a replay to i leaves are those the
\* iteration has when it reaches index i going through 0..i in sequence,
\* the advances by the direction of every character included.
C4_ReplayEqualsSequential ==
  (Replayed /\ SequentialAt(sq.last).err = "none")
  => /\ sq.ctx = SequentialAt(sq.last).ctx
     /\ sq.pos = SequentialAt(sq.last).pos

\* C5: _process_to(i) called twice in a row, nothing else done to the
\* sequence in between, leaves after the second call the attributes and the
\* cursor the first call left.
C5_ProcessToIdempotent ==
  [][(/\ pc = "iter"
      /\ called[1] = "access"
      /\ called' = called
      /\ accesses' = accesses + 1
      /\ sq.err = "none"
      /\ sq'.err = "none")
     => (sq'.ctx = sq.ctx /\ sq'.pos = sq.pos)]_vars

\* C6: a replay entered while a replay is running ends with the fatal
\* error, and a call during which no replay was entered inside a replay
\* never ends with that error.
C6_ReentrancyGuard ==
  called[1] \in {"access", "next"}
  => (sq.err = "RuntimeError" <=> sq.nested)

\* the transformers a yielded context holds
Holds(y, tr) == tr \in Range(y.transformers) \cup Range(y.pretransformers)

\* the pass of Text._at went through the whole text
Written == res.op = "at" /\ res.err = "none" /\ sq.err = "none"
             /\ Len(out) = Len(text)

\* C24: a transformer pushed at offset s with span L (the count of its tag,
\* the distance to its closing tag, or what is left of the text when it has
\* neither) is in a list of the yielded context exactly for the characters
\* s..s+L-1, whether its tag was closed or not.
C24_TransformerLifetime ==
  Written =>
    \A i \in DOMAIN sq.pushes, k \in DOMAIN out :
      Holds(out[k], sq.pushes[i].transformer)
        <=> /\ sq.pushes[i].transformer.sequence_absolute_start
                 <= out[k].index
            /\ out[k].index
                 < sq.pushes[i].transformer.sequence_absolute_start
                     + sq.pushes[i].transformer.sequence_len

\* C25: a push of a transformer leaves the list that was current as it was
\* and installs another list, the copy with the transformer appended; after
\* a pass, with its detachments, the lists of the parent context hold what
\* the owner's lists held before it.
C25_CopyOnWrite ==
  (res.op = "at" /\ res.err = "none")
    => /\ \A i \in DOMAIN sq.pushes :
            /\ sq.pushes[i].after = sq.pushes[i].before
            /\ sq.pushes[i].new # sq.pushes[i].old
            /\ sq.pushes[i].installed
                 = Append(sq.pushes[i].before, sq.pushes[i].transformer)
       /\ sq.heap[1] = owner_lists.transformers
       /\ sq.heap[2] = owner_lists.pretransformers

\* "[transformer: t]a[transformer: u]b[/transformer]c[/transformer]d" on a
\* plane whose owner has a transformer of its own: both transformers were
\* pushed and detached again, the second on top of the first
C25_Witness ==
  /\ Written
  /\ Len(text) = 4
  /\ owner_lists.pretransformers = <<ParentTransformer>>
  /\ Len(sq.pushes) = 2
  /\ sq.pushes[2].before = <<ParentTransformer, sq.pushes[1].transformer>>
  /\ sq.active = <<>>
  /\ out[2].pretransformers
       = <<ParentTransformer, sq.pushes[1].transformer,
           sq.pushes[2].transformer>>
  /\ out[4].pretransformers = <<ParentTransformer>>

\* what a grid of cells shows at a position
CellOf(cells, pos) == IF pos \in DOMAIN cells THEN cells[pos] ELSE EMPTY

\* the characters of the last pass that landed on the plane, by their place
\* in the text, and those of them that landed on pos
Landed == {k \in DOMAIN out : InBounds(plane, out[k].position)}
LandedAt(pos) == {k \in Landed : out[k].position = pos}

\* the cells a pass may have touched or left alone
Around ==
  ((-1)..plane.width) \X ((-1)..plane.height)
    \cup {out[k].position : k \in DOMAIN out}

\* what a grid that showed cells before the pass shows after it
AfterPass(cells, pos) ==
  IF LandedAt(pos) # {} THEN text[Max(LandedAt(pos))] ELSE CellOf(cells, pos)

\* C26: a read or a write of the plane's grid at a position out of range
\* raises IndexError and leaves the grid as it was; a character of a text
\* that lands out of range raises nothing, leaves the grid, the last
\* position and the owner's cells alone, and the characters after it are
\* written.
C26_PlaneBounds ==
  /\ (res.op \in {"plane_get", "plane_set"} /\ ~InBounds(plane, res.pos))
       => (res.err = "IndexError" /\ plane = res.before)
  /\ res.op = "at"
       => /\ res.err = "none"
          /\ sq.err = "none"
          /\ Len(out) = Len(text)
          /\ \A pos \in DOMAIN plane.cells \cup DOMAIN canvas :
               InBounds(plane, pos)
          /\ \A pos \in Around :
               /\ CellOf(plane.cells, pos)
                    = AfterPass(res.before.plane.cells, pos)
               /\ CellOf(canvas, pos) = AfterPass(res.before.canvas, pos)
          /\ last_pos = IF Landed = {} THEN res.before.last_pos
                        ELSE out[Max(Landed)].position

\* "a[0, 5]b[0, 1]c" from (0, 0): "b" lands below the plane and is lost, "c"
\* is written after it
C26_Witness ==
  /\ res.op = "at"
  /\ text = <<"a", "b", "c">>
  /\ out[2].position = <<0, 5>>
  /\ Landed = {1, 3}
  /\ CellOf(plane.cells, <<0, 1>>) = "c"
  /\ CellOf(canvas, <<0, 1>>) = "c"
  /\ CellOf(plane.cells, <<0, 5>>) = EMPTY
  /\ last_pos = <<0, 1>>

\* plane[3, 0] = "x" on the plane of 3 columns raised IndexError
C26_DirectCase ==
  /\ res.op = "plane_set"
  /\ res.pos = <<3, 0>>
  /\ res.err = "IndexError"
  /\ CellOf(plane.cells, <<0, 0>>) = "x"

\* thread t is between the write of a cell and the end of its blit
InCell(t) == threads.pc[t] \in {"keep", "blit"}
Rivals(t) == {u \in Threads \ {t} : threads.target[u] = threads.target[t]}

\* C27: of the threads that render to one owner at most one is inside
\* _char_at; the cell it wrote still holds its character, the last position
\* it kept is still its own when it blits, and while no thread is inside
\* the owner shows every cell as the plane holds it.
C27_CellWritesExclusive ==
  /\ \A t \in Threads :
       /\ InCell(t)
            => /\ \A u \in Rivals(t) : ~InCell(u)
               /\ CellOf(threads.grid[threads.target[t]].cells,
                         threads.pos[t])
                    = ThreadText[t][threads.k[t] + 1]
       /\ threads.pc[t] = "blit"
            => threads.last[threads.target[t]] = threads.pos[t]
  /\ \A o \in Owners :
       (\A t \in Threads : InCell(t) => threads.target[t] # o)
         => \A pos \in DOMAIN threads.grid[o].cells :
              CellOf(threads.canv[o], pos) = threads.grid[o].cells[pos]

\* both threads render to owner A: t2 waits for the lock while t1 is inside
\* _char_at with its second character
C27_Witness ==
  /\ threads.target = [t \in Threads |-> "A"]
  /\ threads.pc = [t1 |-> "blit", t2 |-> "entered"]
  /\ threads.k["t1"] = 1
  /\ threads.lock = "t1"

\* t2 writes over the cell of t1 when t1 is done: the owner shows the "a" of
\* t1 until t2 blits
C27_AfterCase ==
  /\ threads.target = [t \in Threads |-> "A"]
  /\ threads.pc = [t1 |-> "done", t2 |-> "keep"]
  /\ CellOf(threads.grid["A"].cells, <<0, 0>>) = "c"
  /\ CellOf(threads.canv["A"], <<0, 0>>) = "a"

\* C28: a thread that waits for the lock waits for a thread that renders to
\* the same owner.
C28_LockPerCanvas ==
  \A t \in Threads :
    (threads.pc[t] = "entered" /\ threads.lock \notin {"free", t})
      => threads.target[threads.lock] = threads.target[t]

\* the values thread t may find in attribute a: the default and its own
Own(t, a) ==
  {ContextDefaults[a]}
    \cup (IF a \in DOMAIN OwnValues[t] THEN OwnValues[t][a] ELSE {})

\* C29: what a thread reads from a context is the default or a value the
\* same thread set, never a value of another thread, and the attributes a
\* thread's rendering starts from are the ones that thread reads.
C29_PerThreadContext ==
  \A t \in Threads, a \in ContextAttrs :
    /\ ctx_read(threads.locals["A"][t], a) \in Own(t, a)
    /\ threads.pc[t] = "prepared"
         => /\ threads.seq[t].parent[a]
                 = ctx_read(threads.locals["A"][t], a)
            /\ threads.seq[t].ctx[a] = threads.seq[t].parent[a]

\* t1 reads its red and the default direction while t2, which set DOWN,
\* starts a rendering downwards in the default color
C29_Witness ==
  /\ ctx_read(threads.locals["A"]["t1"], "color") = "red"
  /\ ctx_read(threads.locals["A"]["t1"], "direction") = "RIGHT"
  /\ threads.pc["t2"] = "prepared"
  /\ threads.seq["t2"].parent.direction = "DOWN"
  /\ threads.seq["t2"].parent.color = "DEFAULT_FG"

\* C30: a sequence that was rendered is in the plane's writtings, where
\* update() finds it to render it again, exactly when it holds SpecialMarks;
\* a sequence without them is not kept.
C30_KeptIffSpecial ==
  /\ writtings # <<>> => mark_sequence.special # {}
  /\ (out # <<>> /\ mark_sequence.special # {}) => writtings # <<>>

\* C31: a call of update() raises the tick by one and renders every
\* sequence of writtings once, in the order of writtings, each with its
\* marks prepared for the new tick.
C31_TickDrivenReplay ==
  res.op = "update"
    => /\ ticks = res.before + 1
       /\ Len(log) = res.logged + Len(writtings)
       /\ \A k \in 1..(Len(log) - res.logged) :
            /\ log[res.logged + k].k = k
            /\ log[res.logged + k].tick = ticks
            /\ log[res.logged + k].call = "update"

\* C34: Text.at returns the position of the last character of its text that
\* landed on the plane, whatever the text, the start, and the writes before.
C34_AtReturnsLastPrinted ==
  (res.op = "at" /\ res.err = "none")
    => /\ Landed # {}
       /\ res.value = out[Max(Landed)].position

\* C32: when a thread leaves a scope of a context, every attribute reads as
\* it did when the thread entered that scope, the innermost scope first,
\* also an attribute the thread had neither read nor set before it entered.
C32_ScopeRestores ==
  [][\A t \in Threads :
       Len(threads'.locals["A"][t].stack)
         = Len(threads.locals["A"][t].stack) - 1
       => \A a \in ContextAttrs :
            ctx_read(threads'.locals["A"][t], a)
              = ctx_read(threads.locals["A"][t].stack[
                           Len(threads.locals["A"][t].stack)], a)]_vars

\* C35: the adds to a TaggedDict and its views that have returned, from
\* whatever threads, returned keys that differ from each other, and none of
\* them stored its value over an entry that was already there.
C35_AddKeysUnique ==
  /\ \A i, j \in DOMAIN tagged.added :
       i # j => tagged.added[i].key # tagged.added[j].key
  /\ \A i \in DOMAIN tagged.added : tagged.added[i].new

\* the entries of a mapping that carry all the tags of a call through a view
Carrying(data, filtering, keys) ==
  {k \in DOMAIN data : _get_local_keys(filtering, keys) \subseteq k}

\* C40: after a deletion by tags that raised nothing, the entries left are
\* those that did not carry all the given tags, each with its value and found
\* again by its own tags, and the tag index names stored entries only.
C40_DeleteByTags ==
  (tagged.last.op = "del" /\ tagged.last.err = "none")
    => /\ DOMAIN tagged.data
            = DOMAIN tagged.last.before.data
                \ Carrying(tagged.last.before.data, tagged.last.view,
                           tagged.last.keys)
       /\ \A k \in DOMAIN tagged.data :
            /\ tagged.data[k] = tagged.last.before.data[k]
            /\ k \in _get_resolved_keys(tagged, {}, k).keys
       /\ \A tag \in DOMAIN tagged._keys :
            tagged._keys[tag] \subseteq DOMAIN tagged.data

\* C38: between the calls on a StyledSequence, when no replay is running,
\* its replay guard counter is 0, also after a replay that raised.
C38_GuardCounterRestored == sq.sanity = 0

\* C39: every position that holds a character in the plane's grid is inside
\* the bounds the plane has now, whatever cell writes, renders and changes
\* of size came before.
C39_StoredInsideBounds ==
  \A pos \in DOMAIN plane.cells : InBounds(plane, pos)

\* the place of the k-th character of a text that starts at start and
\* fills the rows of a plane w columns wide from left to right
Wrapped(start, k, w) ==
  <<(start[1] + k - 1) % w, start[2] + ((start[1] + k - 1) \div w)>>

\* a text without Marks of its own was written rightwards from inside the
\* plane
PlainRightwards ==
  /\ Written
  /\ mark_sequence.marks = <<>>
  /\ owner_context.direction = "RIGHT"
  /\ InBounds(plane, starting_point)

C33_BuiltCase ==
  /\ PlainRightwards
  /\ plane.width = 3
  /\ log = <<>>
  /\ starting_point = <<0, 0>>
  /\ Len(out) = 7
  /\ out[3].position = <<2, 0>>
  /\ out[4].position = <<0, 1>>
  /\ CellOf(plane.cells, <<0, 1>>) = "d"

\* render returned or raised in thread t
Left(t) == threads.pc[t] \in {"done", "raised"}

\* the context of the owner thread t rendered to, as t sees it
OwnerLocals(t) == threads.locals[threads.target[t]][t]

\* C36: once render has returned or raised in a thread, the thread does
\* not hold the render lock, it has left the scope it entered on the
\* owner's context, and every attribute of that context reads as it did
\* before the render (nothing had been stored in it for the thread).
C36_RenderExitClean ==
  \A t \in Threads :
    Left(t)
      => /\ threads.lock # t
         /\ OwnerLocals(t).stack = <<>>
         /\ \A a \in CtxNames : ctx_read(OwnerLocals(t), a) = CtxDefaults[a]

\* C37: a step that changes the StyledSequence two threads render (its
\* working context, cursor, last index processed) or the plane's list of
\* writings is a step of the thread that holds the render lock.
C37_ChangesUnderLock ==
  [][(sq' # sq \/ writtings' # writtings)
       => \E t \in Threads : /\ threads'.pc[t] # threads.pc[t]
                             /\ threads'.lock = t]_vars

====
